---- MODULE Spec2Model ----
(***************************************************************************)
(* Ingestion pipeline of the clinical-trial registry ingestor:             *)
(* ClinicalTrialIngestor (src/src/ingestion/orchestrator.py), the paging   *)
(* stream of ClinicalTrialsAPIClient (src/src/ingestion/api/client.py),    *)
(* the identifier check of ClinicalTrialsFieldMapper and the study files   *)
(* of JSONStore.                                                           *)
(*                                                                         *)
(* Texts (reason strings, error messages) are sequences of words; the      *)
(* substring test of the retry loop is a test for a contiguous run of      *)
(* words of the lower-cased message.                                       *)
(***************************************************************************)
EXTENDS Integers, Sequences, FiniteSets, TLC

\* ------------------------------------------------------------------ bounds
MaxRegistry == 2    \* records the registry holds
MaxRetry == 2       \* largest retry_attempts that is configured
MaxStudies == 2     \* largest max_studies that is asked for
MaxRuns == 2        \* calls of ingest_studies on one ingestor
PageSize == 1       \* APIConfig.page_size of the modelled client

\* ------------------------------------------------------- program constants
retry_delay == 1
filter_has_results_only == TRUE
filter_completed_only == TRUE
save_raw_data == TRUE
batch_size == 100
\* an allow-list of one status
allowed_statuses_CompletedOnly == {"COMPLETED"}

allowed_statuses == {"COMPLETED", "ACTIVE_NOT_RECRUITING", "ENROLLING_BY_INVITATION"}

\* -------------------------------------------------------------------- data
IDs == {"NCT1", "NCT2"}
NoId == ""

\* A raw record of the registry (one parsed JSON object of the studies
\* array): the values the pipeline reads, the keys that are absent and the
\* keys that are present with the value null. Every other key is present
\* with one item or one value. A missing or empty nctId is NoId; hasResults
\* is absent or a JSON boolean.
Base(id) ==
    [nctId |-> id, hasResults |-> TRUE, studyType |-> "INTERVENTIONAL",
     overallStatus |-> "COMPLETED", interventions |-> 1, primaryOutcomes |-> 1,
     absent |-> {}, null |-> {}]

\* the keys of protocolSection that hold a module, and the module of each field
Modules ==
    {"identificationModule", "descriptionModule", "statusModule",
     "sponsorCollaboratorsModule", "designModule", "conditionsModule",
     "eligibilityModule", "contactsLocationsModule", "oversightModule",
     "armsInterventionsModule", "outcomesModule"}

ModuleOf(f) ==
    CASE f = "studyType" -> "designModule"
      [] f = "enrollmentInfo" -> "designModule"
      [] f = "overallStatus" -> "statusModule"
      [] f = "studyFirstPostDate" -> "statusModule"
      [] f = "conditions" -> "conditionsModule"
      [] f = "locations" -> "contactsLocationsModule"
      [] f = "interventions" -> "armsInterventionsModule"
      [] f = "primaryOutcomes" -> "outcomesModule"
      [] f = "secondaryOutcomes" -> "outcomesModule"

Fields ==
    {"studyType", "enrollmentInfo", "overallStatus", "studyFirstPostDate", "conditions",
     "locations", "interventions", "primaryOutcomes", "secondaryOutcomes"}

\* dict.get(key, {}) on the parsed JSON: a dict, the default {} when the key
\* is absent, or None when the key is present with null
Section(r, key) ==
    IF key \in r.null THEN "None" ELSE IF key \in r.absent THEN "empty" ELSE "dict"

\* protocol_section.get(m, {}): AttributeError when protocol_section is None
Module(r, m) ==
    CASE Section(r, "protocolSection") = "None" -> "raises"
      [] Section(r, "protocolSection") = "empty" -> "empty"
      [] OTHER -> Section(r, m)

\* module.get(f, default) for the module of field f: AttributeError when the
\* module is None, else the default, None or the value of the record
Field(r, f) ==
    CASE Module(r, ModuleOf(f)) \in {"raises", "None"} -> "raises"
      [] Module(r, ModuleOf(f)) = "empty" -> "default"
      [] f \in r.absent -> "default"
      [] f \in r.null -> "None"
      [] OTHER -> "value"

\* api_response.get('hasResults', False)
HasResults(r) == IF "hasResults" \in r.absent THEN FALSE ELSE r.hasResults

RecordUniverse ==
    {Base(id) : id \in IDs \cup {NoId}}
    \cup {[Base("NCT1") EXCEPT !.hasResults = FALSE],
          [Base("NCT1") EXCEPT !.studyType = "OBSERVATIONAL"],
          [Base("NCT1") EXCEPT !.overallStatus = "RECRUITING"],
          [Base("NCT1") EXCEPT !.interventions = 0],
          [Base("NCT1") EXCEPT !.primaryOutcomes = 0]}

SeqsUpTo(S, n) == UNION {[1..k -> S] : k \in 0..n}

\* ------------------------------------------------------------------- texts
Lower(w) ==
    CASE w = "No" -> "no"
      [] w = "Not" -> "not"
      [] w = "Study" -> "study"
      [] w = "Failed" -> "failed"
      [] w = "NCT" -> "nct"
      [] w = "ID" -> "id"
      [] w = "Expecting" -> "expecting"
      [] w = "Already" -> "already"
      [] w = "INTERVENTIONAL" -> "interventional"
      [] w = "OBSERVATIONAL" -> "observational"
      [] w = "COMPLETED" -> "completed"
      [] w = "RECRUITING" -> "recruiting"
      [] OTHER -> w

Upper(w) ==
    CASE w = "interventional" -> "INTERVENTIONAL"
      [] w = "Interventional" -> "INTERVENTIONAL"
      [] w = "observational" -> "OBSERVATIONAL"
      [] w = "completed" -> "COMPLETED"
      [] w = "Completed" -> "COMPLETED"
      [] w = "withdrawn" -> "WITHDRAWN"
      [] w = "recruiting" -> "RECRUITING"
      [] w = "Terminated" -> "TERMINATED"
      [] w = "unknown" -> "UNKNOWN"
      [] w = "foo" -> "FOO"
      [] OTHER -> w

LowerText(t) == [i \in 1..Len(t) |-> Lower(t[i])]

\* phrase in text, as Python's `in` on strings, word by word
Contains(text, phrase) ==
    \E i \in 0..(Len(text) - Len(phrase)) :
        \A j \in 1..Len(phrase) : text[i + j] = phrase[j]

AlreadyExists == <<"Already", "exists">>
FailedPrefix == <<"Failed", "to", "process", "study:">>
MissingIdText == <<"Study", "missing", "required", "NCT", "ID">>
NoSpaceText == <<"No", "space", "left", "on", "device">>
PermissionText == <<"Permission", "denied">>
JsonDecodeText == <<"Expecting", "value">>
AttributeErrorText == <<"'NoneType'", "object", "has", "no", "attribute">>
TypeErrorText == <<"'NoneType'", "object", "is", "not", "iterable">>

NonRetryablePhrases ==
    {<<"no", "results">>, <<"no", "primary", "outcomes">>, <<"no", "interventions">>,
     <<"not", "interventional">>, <<"not", "completed">>}

IsValidationError(error_msg) ==
    \E msg \in NonRetryablePhrases : Contains(LowerText(error_msg), msg)


\* ------------------------------------------------------ eligibility filter
Reject(reason) == [raised |-> FALSE, text |-> <<>>, ok |-> FALSE, reason |-> reason]

Accept == [raised |-> FALSE, text |-> <<>>, ok |-> TRUE, reason |-> <<>>]

\* an exception leaves the function: no pair is returned
Raise(text) == [raised |-> TRUE, text |-> text, ok |-> FALSE, reason |-> <<>>]

\* the string a field holds: its value, or the default '' of .get
StudyType(r) == IF Field(r, "studyType") = "value" THEN r.studyType ELSE ""

\* str(overall_status) as the reason string formats it
OverallStatus(r) ==
    CASE Field(r, "overallStatus") = "value" -> r.overallStatus
      [] Field(r, "overallStatus") = "None" -> "None"
      [] OTHER -> ""

\* len() of a list field, 0 for the default [] and for None (both falsy)
Items(r, f) ==
    IF Field(r, f) # "value" THEN 0 ELSE IF f \in DOMAIN r THEN r[f] ELSE 1

\* should_process_study without the has-results predicate
should_process_study_AnyResults(r, config) ==
    IF Field(r, "studyType") \in {"raises", "None"} THEN Raise(AttributeErrorText)
    ELSE IF Upper(StudyType(r)) # "INTERVENTIONAL"
    THEN Reject(<<"Not", "interventional", "study:", StudyType(r)>>)
    ELSE IF Field(r, "overallStatus") = "raises" THEN Raise(AttributeErrorText)
    ELSE IF config.filter_completed_only /\ OverallStatus(r) \notin allowed_statuses
    THEN Reject(<<"Study", "not", "in", "allowed", "statuses:", OverallStatus(r)>>)
    ELSE IF Field(r, "interventions") = "raises" THEN Raise(AttributeErrorText)
    ELSE IF Items(r, "interventions") = 0
    THEN Reject(<<"No", "interventions", "defined">>)
    ELSE IF Field(r, "primaryOutcomes") = "raises" THEN Raise(AttributeErrorText)
    ELSE IF Items(r, "primaryOutcomes") = 0
    THEN Reject(<<"No", "primary", "outcomes", "defined">>)
    ELSE Accept

should_process_study(r, config) ==
    IF config.filter_has_results_only /\ ~HasResults(r)
    THEN Reject(<<"No", "results", "posted">>)
    ELSE IF Field(r, "studyType") \in {"raises", "None"} THEN Raise(AttributeErrorText)
    ELSE IF Upper(StudyType(r)) # "INTERVENTIONAL"
    THEN Reject(<<"Not", "interventional", "study:", StudyType(r)>>)
    ELSE IF Field(r, "overallStatus") = "raises" THEN Raise(AttributeErrorText)
    ELSE IF config.filter_completed_only /\ OverallStatus(r) \notin allowed_statuses
    THEN Reject(<<"Study", "not", "in", "allowed", "statuses:", OverallStatus(r)>>)
    ELSE IF Field(r, "interventions") = "raises" THEN Raise(AttributeErrorText)
    ELSE IF Items(r, "interventions") = 0
    THEN Reject(<<"No", "interventions", "defined">>)
    ELSE IF Field(r, "primaryOutcomes") = "raises" THEN Raise(AttributeErrorText)
    ELSE IF Items(r, "primaryOutcomes") = 0
    THEN Reject(<<"No", "primary", "outcomes", "defined">>)
    ELSE Accept

\* ------------------------------------------------------------ field mapper
\* None where Python holds no int and no list
PyNone == -1

StudyStatuses ==
    {"COMPLETED", "TERMINATED", "SUSPENDED", "WITHDRAWN", "ACTIVE_NOT_RECRUITING",
     "RECRUITING", "NOT_YET_RECRUITING", "ENROLLING_BY_INVITATION", "AVAILABLE",
     "NO_LONGER_AVAILABLE", "TEMPORARILY_NOT_AVAILABLE", "APPROVED_FOR_MARKETING",
     "UNKNOWN"}

\* the Study dataclass: the fields the pipeline and its store read back
StudyObject(nct_id, has_results, overall_status, conditions, interventions, primary_outcomes, secondary_outcomes, places, first_posted, enrollment_count) ==
    [none |-> FALSE, nct_id |-> nct_id, has_results |-> has_results,
     overall_status |-> overall_status, conditions |-> conditions,
     interventions |-> interventions, primary_outcomes |-> primary_outcomes,
     secondary_outcomes |-> secondary_outcomes, countries |-> places,
     locations |-> places, first_posted |-> first_posted,
     enrollment_count |-> enrollment_count]

\* None in place of a Study
NoStudy ==
    [StudyObject(NoId, FALSE, "UNKNOWN", 0, 0, 0, 0, 0, <<>>, PyNone) EXCEPT !.none = TRUE]

\* identification.get('nctId'): the id, or the falsy NoId for a missing key,
\* a null and an empty string
NctId(r) == IF "nctId" \in r.absent \cup r.null THEN NoId ELSE r.nctId

\* api_response.get('resultsSection'): the section, or None without one
ResultsSection(r) ==
    IF "resultsSection" \in r.absent \cup r.null THEN "None" ELSE "dict"

\* the RawStudyData dataclass
RawStudyData(nct_id, protocol_section, results_section, has_results) ==
    [nct_id |-> nct_id, protocol_section |-> protocol_section,
     results_section |-> results_section, has_results |-> has_results]

NoRaw(r) == RawStudyData(NoId, r, "None", FALSE)

\* extract_raw_study_data that takes has_results from the results section
extract_raw_study_data_Inferred(r) ==
    IF Module(r, "identificationModule") \in {"raises", "None"}
    THEN [raised |-> TRUE, text |-> AttributeErrorText, raw |-> NoRaw(r)]
    ELSE IF Module(r, "identificationModule") = "empty" \/ NctId(r) = NoId
    THEN [raised |-> TRUE, text |-> MissingIdText, raw |-> NoRaw(r)]
    ELSE [raised |-> FALSE, text |-> <<>>,
          raw |-> RawStudyData(r.nctId, r, ResultsSection(r), ResultsSection(r) = "dict")]

extract_raw_study_data(r) ==
    IF Module(r, "identificationModule") \in {"raises", "None"}
    THEN [raised |-> TRUE, text |-> AttributeErrorText, raw |-> NoRaw(r)]
    ELSE IF Module(r, "identificationModule") = "empty" \/ NctId(r) = NoId
    THEN [raised |-> TRUE, text |-> MissingIdText, raw |-> NoRaw(r)]
    ELSE [raised |-> FALSE, text |-> <<>>,
          raw |-> RawStudyData(r.nctId, r, ResultsSection(r), HasResults(r))]

\* status_module.get('overallStatus'): the value, or None without one
StatusStr(r) == IF Field(r, "overallStatus") = "value" THEN r.overallStatus ELSE "None"

\* map_study_status that looks the string up as it is spelled
map_study_status_Exact(status_str) ==
    IF status_str \in {"None", ""} THEN "UNKNOWN"
    ELSE IF status_str \in StudyStatuses THEN status_str
    ELSE "UNKNOWN"

map_study_status(status_str) ==
    IF status_str \in {"None", ""} THEN "UNKNOWN"
    ELSE IF Upper(status_str) \in StudyStatuses THEN Upper(status_str)
    ELSE "UNKNOWN"

\* One component of a date structure: kind says what the key holds (absent
\* key, null, an int, a float given by its integral part, a string of digits,
\* another string, an int or a float too large for a C int) and v its value.
Comp(kind, v) == [kind |-> kind, v |-> v]

\* a date structure as the API sends it; type "None" and "str" are the
\* inputs that are no dict
DateDict(type, year, month, day) ==
    [type |-> type, year |-> year, month |-> month, day |-> day]

NoDateDict == DateDict("None", Comp("absent", 0), Comp("absent", 0), Comp("absent", 0))

\* None in place of a datetime; a datetime is <<year, month, day>>
NoDate == <<>>

\* date_dict.get(key, default)
Get(comp, default) == IF comp.kind = "absent" THEN default ELSE comp

\* bool(year)
Truthy(comp) ==
    CASE comp.kind \in {"absent", "null"} -> FALSE
      [] comp.kind \in {"int", "float"} -> comp.v # 0
      [] OTHER -> TRUE

\* the exception int(x) raises, "none" when it returns
IntError(comp) ==
    CASE comp.kind \in {"absent", "null"} -> "TypeError"
      [] comp.kind = "str" -> "ValueError"
      [] comp.kind = "inf" -> "OverflowError"
      [] OTHER -> "none"

IsLeap(y) == (y % 4 = 0 /\ y % 100 # 0) \/ y % 400 = 0

DaysInMonth(y, m) ==
    IF m = 2 THEN (IF IsLeap(y) THEN 29 ELSE 28)
    ELSE IF m \in {4, 6, 9, 11} THEN 30 ELSE 31

\* the exception datetime(year, month, day) raises, "none" when it returns
DatetimeError(year, month, day) ==
    IF "huge" \in {year.kind, month.kind, day.kind} THEN "OverflowError"
    ELSE IF year.v \notin 1..9999 \/ month.v \notin 1..12 THEN "ValueError"
    ELSE IF day.v \notin 1..DaysInMonth(year.v, month.v) THEN "ValueError"
    ELSE "none"

\* parse_date: ValueError and TypeError give None, any other exception
\* leaves the function; the first failing conversion decides
FirstError(year, month, day) ==
    IF IntError(year) # "none" THEN IntError(year)
    ELSE IF IntError(month) # "none" THEN IntError(month)
    ELSE IF IntError(day) # "none" THEN IntError(day)
    ELSE DatetimeError(year, month, day)

parse_date(date_dict) ==
    IF date_dict.type # "dict" THEN [raised |-> FALSE, text |-> "none", date |-> NoDate]
    ELSE IF date_dict.year.kind = "absent" /\ date_dict.month.kind = "absent"
            /\ date_dict.day.kind = "absent"
    THEN [raised |-> FALSE, text |-> "none", date |-> NoDate]
    ELSE IF ~Truthy(date_dict.year) THEN [raised |-> FALSE, text |-> "none", date |-> NoDate]
    ELSE \* datetime(int(year), int(month), int(day))
         LET year == date_dict.year
             month == Get(date_dict.month, Comp("int", 1))
             day == Get(date_dict.day, Comp("int", 1))
             first == FirstError(year, month, day)
         IN  IF first = "none"
             THEN [raised |-> FALSE, text |-> "none", date |-> <<year.v, month.v, day.v>>]
             ELSE IF first \in {"ValueError", "TypeError"}
             THEN [raised |-> FALSE, text |-> "none", date |-> NoDate]
             ELSE [raised |-> TRUE, text |-> first, date |-> NoDate]

\* status_module.get(f): the date structure of the record, None without one
DateField(r, f) ==
    IF Field(r, f) = "value"
    THEN DateDict("dict", Comp("int", 2020), Comp("int", 1), Comp("int", 15))
    ELSE NoDateDict

\* the locations list the mapper iterates: guarded against a module that is None
LocationsData(r) ==
    IF Module(r, "contactsLocationsModule") # "dict" THEN "default"
    ELSE IF "locations" \in r.absent THEN "default"
    ELSE IF "locations" \in r.null THEN "None"
    ELSE "value"

\* enrollment_info.get('count') through _safe_int, None without enrollmentInfo
EnrollmentCount(r) == IF Field(r, "enrollmentInfo") = "value" THEN 1 ELSE PyNone

\* a list field copied as .get returned it: [] by default, None for null
Copied(r, f) == IF Field(r, f) = "None" THEN PyNone ELSE Items(r, f)

map_to_study_object(raw_data) ==
    LET protocol == raw_data.protocol_section
        unguarded == {"identificationModule", "descriptionModule", "statusModule",
                      "sponsorCollaboratorsModule", "designModule", "conditionsModule",
                      "armsInterventionsModule", "outcomesModule"}
        iterated == {"interventions", "primaryOutcomes", "secondaryOutcomes"}
    IN  IF \E m \in unguarded : Module(protocol, m) \in {"raises", "None"}
        THEN [raised |-> TRUE, text |-> AttributeErrorText, study |-> NoStudy]
        ELSE IF LocationsData(protocol) = "None" \/ \E f \in iterated : Field(protocol, f) = "None"
        THEN [raised |-> TRUE, text |-> TypeErrorText, study |-> NoStudy]
        ELSE [raised |-> FALSE, text |-> <<>>,
              study |-> StudyObject(raw_data.nct_id, raw_data.has_results,
                                    map_study_status(StatusStr(protocol)),
                                    Copied(protocol, "conditions"),
                                    Items(protocol, "interventions"),
                                    Items(protocol, "primaryOutcomes"),
                                    Items(protocol, "secondaryOutcomes"),
                                    IF LocationsData(protocol) = "value" THEN 1 ELSE 0,
                                    parse_date(DateField(protocol, "studyFirstPostDate")).date,
                                    EnrollmentCount(protocol))]

\* ------------------------------------------------------------------- store
\* One file per study id: absent, a complete JSON document, or a document
\* that a failed write left truncated.
NoFile == [file |-> "absent", study |-> NoStudy]
Faults == {"none", "open_fails", "write_fails"}

\* get_study that never finds a stored study
get_study_Blind(st, nct_id) ==
    [raised |-> FALSE, text |-> <<>>, study |-> NoStudy]

get_study(st, nct_id) ==
    CASE st[nct_id].file = "absent" -> [raised |-> FALSE, text |-> <<>>, study |-> NoStudy]
      [] st[nct_id].file = "ok" ->
            [raised |-> FALSE, text |-> <<>>, study |-> st[nct_id].study]
      [] OTHER -> [raised |-> TRUE, text |-> JsonDecodeText, study |-> NoStudy]

\* save_study that reports success without leaving a file
save_study_Lost(st, study, fault) ==
    CASE fault = "open_fails" -> [raised |-> TRUE, text |-> PermissionText, store |-> st]
      [] fault = "write_fails" ->
            [raised |-> TRUE, text |-> NoSpaceText,
             store |-> [st EXCEPT ![study.nct_id] = [file |-> "corrupt", study |-> NoStudy]]]
      [] OTHER -> [raised |-> FALSE, text |-> <<>>, store |-> st]

save_study(st, study, fault) ==
    CASE fault = "open_fails" -> [raised |-> TRUE, text |-> PermissionText, store |-> st]
      [] fault = "write_fails" ->
            [raised |-> TRUE, text |-> NoSpaceText,
             store |-> [st EXCEPT ![study.nct_id] = [file |-> "corrupt", study |-> NoStudy]]]
      [] OTHER ->
            [raised |-> FALSE, text |-> <<>>,
             store |-> [st EXCEPT ![study.nct_id] = [file |-> "ok", study |-> study]]]

list_studies(st) == {id \in IDs : st[id].file # "absent"}

\* ------------------------------------------------- process_single_study
\* The value returned, the store it leaves and the calls it made, in order.
Outcome(success, study, error_msg, st, calls) ==
    [success |-> success, study |-> study, error_msg |-> error_msg,
     store |-> st, calls |-> calls]

\* process_single_study with the store lookup ahead of the eligibility check
process_single_study_LookupFirst(api_response, st, fault, config) ==
    LET sp == should_process_study(api_response, config)
        ex == extract_raw_study_data(api_response)
        existing == get_study(st, ex.raw.nct_id)
        mapped == map_to_study_object(ex.raw)
        saved == save_study(st, mapped.study, fault)
        c1 == <<"extract_raw_study_data">>
        c2 == Append(c1, "get_study")
        c3 == Append(c2, "should_process_study")
        c4 == c3 \o (IF config.save_raw_data THEN <<"save_raw_study_data">> ELSE <<>>)
                 \o <<"map_to_study_object">>
        c5 == Append(c4, "save_study")
    IN  IF ex.raised THEN Outcome(FALSE, NoStudy, FailedPrefix \o ex.text, st, c1)
        ELSE IF existing.raised
        THEN Outcome(FALSE, NoStudy, FailedPrefix \o existing.text, st, c2)
        ELSE IF ~existing.study.none
        THEN Outcome(FALSE, existing.study, AlreadyExists, st, c2)
        ELSE IF sp.raised THEN Outcome(FALSE, NoStudy, FailedPrefix \o sp.text, st, c3)
        ELSE IF ~sp.ok THEN Outcome(FALSE, NoStudy, sp.reason, st, c3)
        ELSE IF mapped.raised
        THEN Outcome(FALSE, NoStudy, FailedPrefix \o mapped.text, st, c4)
        ELSE IF saved.raised
        THEN Outcome(FALSE, NoStudy, FailedPrefix \o saved.text, saved.store, c5)
        ELSE Outcome(TRUE, mapped.study, <<>>, saved.store, c5)

process_single_study(api_response, st, fault, config) ==
    LET sp == should_process_study(api_response, config)
        ex == extract_raw_study_data(api_response)
        existing == get_study(st, ex.raw.nct_id)
        mapped == map_to_study_object(ex.raw)
        saved == save_study(st, mapped.study, fault)
        c1 == <<"should_process_study">>
        c2 == Append(c1, "extract_raw_study_data")
        c3 == Append(c2, "get_study")
        c4 == c3 \o (IF config.save_raw_data THEN <<"save_raw_study_data">> ELSE <<>>)
                 \o <<"map_to_study_object">>
        c5 == Append(c4, "save_study")
    IN  IF sp.raised THEN Outcome(FALSE, NoStudy, FailedPrefix \o sp.text, st, c1)
        ELSE IF ~sp.ok THEN Outcome(FALSE, NoStudy, sp.reason, st, c1)
        ELSE IF ex.raised THEN Outcome(FALSE, NoStudy, FailedPrefix \o ex.text, st, c2)
        ELSE IF existing.raised
        THEN Outcome(FALSE, NoStudy, FailedPrefix \o existing.text, st, c3)
        ELSE IF ~existing.study.none
        THEN Outcome(FALSE, existing.study, AlreadyExists, st, c3)
        ELSE IF mapped.raised
        THEN Outcome(FALSE, NoStudy, FailedPrefix \o mapped.text, st, c4)
        ELSE IF saved.raised
        THEN Outcome(FALSE, NoStudy, FailedPrefix \o saved.text, saved.store, c5)
        ELSE Outcome(TRUE, mapped.study, <<>>, saved.store, c5)

\* -------------------------------------------------------------- API client
\* A filter set is the dict query_filters: the keys it holds and the value of
\* each key. A status or condition value is a string or a list of strings;
\* v holds the string or the items of the list.
Str(v) == [type |-> "str", v |-> <<v>>]

List(vs) == [type |-> "list", v |-> vs]

NoFilters ==
    [keys |-> {}, intervention_type |-> "", conditions |-> List(<<>>),
     overall_status |-> List(<<>>), has_results |-> FALSE, study_type |-> ""]

\* build_query_filters without custom filters
build_query_filters ==
    [NoFilters EXCEPT !.keys = {"intervention_type"}, !.intervention_type = "BEHAVIORAL"]

RECURSIVE Join(_, _)
\* sep.join(terms): the terms with one separator between neighbours
Join(sep, terms) ==
    IF Len(terms) = 0 THEN <<>>
    ELSE IF Len(terms) = 1 THEN <<terms[1]>>
    ELSE <<terms[1], sep>> \o Join(sep, Tail(terms))

Clause(area, value) == <<area, value>>

And == <<" AND ">>

\* as StatusTerms, but a list emits its first status
StatusTerms_First(statuses) ==
    IF statuses.type = "list"
    THEN IF statuses.v # <<>>
         THEN <<Clause("AREA[OverallStatus]", statuses.v[1])>>
         ELSE <<>>
    ELSE <<Clause("AREA[OverallStatus]", statuses.v[1])>>

\* the terms the overall_status filter adds: a list adds its primary status
\* COMPLETED when it holds it and nothing otherwise, a string adds itself
StatusTerms(statuses) ==
    IF statuses.type = "list"
    THEN IF \E i \in DOMAIN statuses.v : statuses.v[i] = "COMPLETED"
         THEN <<Clause("AREA[OverallStatus]", "COMPLETED")>>
         ELSE <<>>
    ELSE <<Clause("AREA[OverallStatus]", statuses.v[1])>>

\* the query parameters _build_request_url encodes into the URL; pageToken 0
\* and an empty query_term stand for a parameter that is not sent
_build_request_url(query_filters, page_token) ==
    LET has(k) == k \in query_filters.keys
        intervention ==
            IF has("intervention_type")
            THEN <<Clause("AREA[InterventionType]", query_filters.intervention_type)>>
            ELSE <<>>
        conditions ==
            IF ~has("conditions") THEN <<>>
            ELSE IF query_filters.conditions.type = "list"
            THEN [i \in DOMAIN query_filters.conditions.v |->
                     Clause("AREA[Condition]", query_filters.conditions.v[i])]
            ELSE <<Clause("AREA[Condition]", query_filters.conditions.v[1])>>
        status ==
            IF has("overall_status") THEN StatusTerms(query_filters.overall_status) ELSE <<>>
        query_terms == intervention \o conditions \o status
    IN  [pageSize |-> PageSize,
         has_query_term |-> query_terms # <<>>,
         query_term |-> Join(And, query_terms),
         pageToken |-> page_token]

\* what the loop body of _filter_studies does with one study
FilterVerdict(study, query_filters) ==
    LET has(k) == k \in query_filters.keys
        target == query_filters.overall_status
        status_matches ==
            IF target.type = "list"
            THEN \E i \in DOMAIN target.v : target.v[i] = OverallStatus(study)
            ELSE OverallStatus(study) = target.v[1]
    IN  IF has("has_results") /\ query_filters.has_results /\ ~HasResults(study) THEN "drop"
        ELSE IF has("overall_status") /\ Field(study, "overallStatus") = "raises" THEN "raise"
        ELSE IF has("overall_status") /\ ~status_matches THEN "drop"
        ELSE IF has("study_type") /\ Field(study, "studyType") \in {"raises", "None"}
        THEN "raise"
        ELSE IF has("study_type") /\ Upper(StudyType(study)) # Upper(query_filters.study_type)
        THEN "drop"
        ELSE "keep"

KeepStudy(study, query_filters) == FilterVerdict(study, query_filters) = "keep"

_filter_studies(studies, query_filters) ==
    IF query_filters.keys = {} THEN [raised |-> FALSE, studies |-> studies]
    ELSE IF \E i \in DOMAIN studies : FilterVerdict(studies[i], query_filters) = "raise"
    THEN [raised |-> TRUE, studies |-> <<>>]
    ELSE [raised |-> FALSE,
          studies |-> SelectSeq(studies, LAMBDA s : KeepStudy(s, query_filters))]

\* The registry serves its records PageSize at a time; a page token is the
\* index of the first record of the page, 0 stands for no token. An endless
\* registry answers the last page with the token of the first.
PageStart(page_token) == IF page_token = 0 THEN 1 ELSE page_token

Serve(reg, loops, params) ==
    LET first == PageStart(params.pageToken)
        last == IF first + params.pageSize - 1 < Len(reg)
                THEN first + params.pageSize - 1 ELSE Len(reg)
    IN  [studies |-> SubSeq(reg, first, last),
         nextPageToken |-> IF last < Len(reg) THEN last + 1
                           ELSE IF loops /\ Len(reg) > 0 THEN 1 ELSE 0,
         totalCount |-> Len(reg)]

\* How a request ends: with a 200 response and a JSON body, with another
\* status, with a body that is no JSON, or without a response.
Transports == {"ok", "http_error", "bad_json", "network_error"}

HttpErrorText == <<"HTTP", "500:", "Internal", "Server", "Error">>
NetworkErrorText == <<"urlopen", "error">>

NoData == [studies |-> <<>>, nextPageToken |-> 0, totalCount |-> 0]

\* _make_request: the parsed body, or the exception it logs and re-raises
_make_request(data, transport) ==
    CASE transport = "ok" -> [raised |-> FALSE, text |-> <<>>, data |-> data]
      [] transport = "http_error" -> [raised |-> TRUE, text |-> HttpErrorText, data |-> NoData]
      [] transport = "bad_json" -> [raised |-> TRUE, text |-> JsonDecodeText, data |-> NoData]
      [] OTHER -> [raised |-> TRUE, text |-> NetworkErrorText, data |-> NoData]

\* fetch_studies_batch that answers a failed request with an empty last page
fetch_studies_batch_Swallows(reg, loops, query_filters, page_token, transport) ==
    LET url == _build_request_url(query_filters, page_token)
        response == _make_request(Serve(reg, loops, url), transport)
        data == response.data
        filtered == _filter_studies(data.studies, query_filters)
    IN  [raised |-> filtered.raised,
         request |-> url,
         studies |-> filtered.studies,
         next_page_token |-> data.nextPageToken,
         total_count |-> data.totalCount,
         has_more |-> data.nextPageToken # 0]

fetch_studies_batch(reg, loops, query_filters, page_token, transport) ==
    LET url == _build_request_url(query_filters, page_token)
        response == _make_request(Serve(reg, loops, url), transport)
        data == response.data
        filtered == _filter_studies(data.studies, query_filters)
    IN  [raised |-> response.raised \/ filtered.raised,
         request |-> url,
         studies |-> IF response.raised THEN <<>> ELSE filtered.studies,
         next_page_token |-> data.nextPageToken,
         total_count |-> data.totalCount,
         has_more |-> data.nextPageToken # 0]

\* the records the registry returns for query.id = nct_id with pageSize 1
ServeById(reg, nct_id) ==
    LET found == SelectSeq(reg, LAMBDA r : r.nctId = nct_id)
    IN  [NoData EXCEPT !.studies = IF found = <<>> THEN <<>> ELSE <<Head(found)>>,
                       !.totalCount = Len(found)]

\* None in place of a raw record
NoRecord == [none |-> TRUE, study |-> Base(NoId)]

\* fetch_study_by_nct_id: the first record of the response, None without
\* one and None when the request fails
fetch_study_by_nct_id(reg, nct_id, transport) ==
    LET response == _make_request(ServeById(reg, nct_id), transport)
    IN  IF response.raised \/ response.data.studies = <<>> THEN NoRecord
        ELSE [none |-> FALSE, study |-> Head(response.data.studies)]

\* test_connection that takes every answered request as a success
test_connection_AnyAnswer(probe, transport) == ~_make_request(probe, transport).raised

\* test_connection: the probe request returned at least one study
test_connection(probe, transport) ==
    LET response == _make_request(probe, transport)
    IN  ~response.raised /\ response.data.studies # <<>>

\* -------------------------------------- ingest_single_study_by_nct_id
NotFoundText == <<"Study", "not", "found", "in", "API">>

\* ingest_single_study_by_nct_id that processes whatever the lookup returned
ingest_single_study_by_nct_id_Unchecked(reg, nct_id, transport, st, fault, config) ==
    LET study_data == fetch_study_by_nct_id(reg, nct_id, transport)
    IN  process_single_study(study_data.study, st, fault, config)

ingest_single_study_by_nct_id(reg, nct_id, transport, st, fault, config) ==
    LET study_data == fetch_study_by_nct_id(reg, nct_id, transport)
    IN  IF study_data.none THEN Outcome(FALSE, NoStudy, NotFoundText, st, <<>>)
        ELSE process_single_study(study_data.study, st, fault, config)

\* ------------------------------------------------------------------- state
VARIABLES
    cfg,                \* IngestionConfig of the ingestor
    registry,           \* the records the upstream registry holds
    store,              \* JSONStore: study id -> file
    pc,                 \* position of ingest_studies
    stats,              \* IngestionStats of the current run
    studies_processed,  \* local counter of ingest_studies
    gen,                \* the fetch_studies_stream generator
    cur,                \* study_data of the current loop iteration
    attempt,            \* loop variable of _process_with_retry
    last_error,         \* last_error of _process_with_retry
    result,             \* what _process_with_retry returned
    trk,                \* history: what was done for the current record
    log,                \* history: one entry per record counted in this run
    hist,               \* history: the current run
    prev,               \* history: the previous run on this ingestor
    endless,            \* the upstream answers every page with a next page token
    call                \* a function of the program applied to arguments

vars == <<cfg, registry, store, pc, stats, studies_processed, gen, cur, attempt,
          last_error, result, trk, log, hist, prev, endless, call>>

max_pages_default == 50

\* "value or default" that replaces only None
OrDefault_NoneOnly(value, default) == IF value = PyNone THEN default ELSE value

\* "value or default": None and 0 are both falsy
OrDefault(value, default) == IF value \in {PyNone, 0} THEN default ELSE value

ZeroStats ==
    [total_fetched |-> 0, successfully_processed |-> 0, failed_processing |-> 0,
     duplicate_studies |-> 0, studies_with_results |-> 0,
     start_time |-> FALSE, end_time |-> FALSE]

\* success_rate as the fraction num / den
success_rate(st) ==
    IF st.total_fetched = 0 THEN [num |-> 0, den |-> 1]
    ELSE [num |-> st.successfully_processed, den |-> st.total_fetched]

NoResult == [success |-> FALSE, study |-> NoStudy, error_msg |-> <<>>]

NoGen ==
    [phase |-> "closed", page_count |-> 0, next_token |-> 0, buf |-> <<>>,
     batch_next |-> 0, has_more |-> FALSE, max_pages |-> 0, slept |-> 0,
     query_filters |-> NoFilters]

NoTrack ==
    [attempts |-> 0, sleeps |-> <<>>, outcomes |-> <<>>, calls |-> <<>>, errors |-> <<>>,
     faulted |-> FALSE, file_before |-> "absent"]

NoHist ==
    [run |-> 0, endedBy |-> "none", pages |-> 0, reads |-> 0, writes |-> 0,
     saves |-> [id \in IDs |-> 0], finalized |-> 0, summary |-> ZeroStats,
     fetch_failed |-> FALSE, store0 |-> [id \in IDs |-> NoFile], reports |-> 0,
     requests |-> <<>>, responses |-> <<>>, yielded |-> <<>>]

NoPrev == [valid |-> FALSE, stats |-> ZeroStats, log |-> <<>>, hist |-> NoHist, store |-> [id \in IDs |-> NoFile]]

\* no function is applied
NoCall == [fn |-> "none"]

\* the configurations of the runs: the filters and save_raw_data keep the
\* defaults of IngestionConfig
Configs ==
    [max_studies_per_run : 1..MaxStudies, retry_attempts : 1..MaxRetry,
     continue_on_error : BOOLEAN, batch_size : {batch_size}, retry_delay : {retry_delay},
     filter_has_results_only : {filter_has_results_only},
     filter_completed_only : {filter_completed_only},
     save_raw_data : {save_raw_data}]

\* what an earlier ingestion of the eligible record of an id left on disk
Stored(id) ==
    [file |-> "ok", study |-> map_to_study_object(extract_raw_study_data(Base(id)).raw).study]

InitialStores ==
    {st \in [IDs -> {NoFile} \cup {Stored(id) : id \in IDs}] :
        \A id \in IDs : st[id] \in {NoFile, Stored(id)}}

Init ==
    /\ cfg \in Configs
    /\ registry \in SeqsUpTo(RecordUniverse, MaxRegistry)
    /\ store \in InitialStores
    /\ pc = "idle"
    /\ stats = ZeroStats
    /\ studies_processed = 0
    /\ gen = NoGen
    /\ cur = Base(NoId)
    /\ attempt = 0
    /\ last_error = <<>>
    /\ result = NoResult
    /\ trk = NoTrack
    /\ log = <<>>
    /\ hist = NoHist
    /\ prev = NoPrev
    /\ endless = FALSE
    /\ call = NoCall

\* ----------------------------------------------------------- ingest_studies
BeginRun ==
    /\ stats' = [ZeroStats EXCEPT !.start_time = TRUE]
    /\ hist' = [NoHist EXCEPT !.run = hist.run + 1, !.store0 = store]
    /\ log' = <<>>
    /\ trk' = NoTrack
    /\ gen' = NoGen
    /\ studies_processed' = 0
    /\ result' = NoResult
    /\ pc' = "connect"
    /\ UNCHANGED <<cfg, registry, store, cur, attempt, last_error, endless, call>>

\* the first call of ingest_studies on the ingestor
Start ==
    /\ pc = "idle"
    /\ BeginRun
    /\ UNCHANGED prev

\* a further call of ingest_studies on the same ingestor, store and registry
Restart ==
    /\ pc = "returned"
    /\ hist.run < MaxRuns
    /\ prev' = [valid |-> TRUE, stats |-> stats, log |-> log, hist |-> hist,
                store |-> store]
    /\ BeginRun

\* the max_studies argument of the call of ingest_studies, None when left out
MaxStudiesArg == IF call.fn = "ingest_studies" THEN call.max_studies ELSE PyNone

max_studies == OrDefault(MaxStudiesArg, cfg.max_studies_per_run)

\* the generator fetch_studies_stream(query_filters, max_pages) returns
fetch_studies_stream(query_filters, max_pages) ==
    [NoGen EXCEPT !.phase = "need_fetch",
                  !.query_filters = query_filters,
                  !.max_pages = OrDefault(max_pages, max_pages_default)]

OpenStream == fetch_studies_stream(build_query_filters, max_studies \div PageSize + 1)

\* a connectivity check whose failure does not stop the run
TestConnection_Ignored ==
    /\ pc = "connect"
    /\ \E ok \in BOOLEAN :
          /\ pc' = "pull"
          /\ gen' = OpenStream
          /\ stats' = IF ok THEN stats ELSE [stats EXCEPT !.end_time = TRUE]
          /\ hist' = IF ok THEN hist ELSE [hist EXCEPT !.endedBy = "no_connection"]
    /\ UNCHANGED <<cfg, registry, store, studies_processed, cur, attempt, last_error,
                   result, trk, log, prev, endless, call>>

TestConnection ==
    /\ pc = "connect"
    /\ \E ok \in BOOLEAN :
          IF ok
          THEN /\ pc' = "pull"
               /\ gen' = OpenStream
               /\ UNCHANGED <<stats, hist>>
          ELSE /\ pc' = "returned"
               /\ stats' = [stats EXCEPT !.end_time = TRUE]
               /\ hist' = [hist EXCEPT !.endedBy = "no_connection"]
               /\ UNCHANGED gen
    /\ UNCHANGED <<cfg, registry, store, studies_processed, cur, attempt, last_error,
                   result, trk, log, prev, endless, call>>

\* ------------------------------------------------- fetch_studies_stream
NoResponse == [ok |-> FALSE, studies |-> <<>>, next_page_token |-> 0]

\* a generator that runs ahead of the loop that iterates it
Consumers_Eager == {"pull", "stream", "attempt", "count"}

\* who iterates the generator: the loop of ingest_studies, or a caller of the client
Consumers == {"pull", "stream"}

\* a stream that goes on after a page without studies
FetchPage_IgnoresEmpty ==
    /\ pc \in Consumers
    /\ gen.phase = "need_fetch"
    /\ IF gen.page_count >= gen.max_pages
       THEN /\ gen' = [gen EXCEPT !.phase = "done"]
            /\ UNCHANGED hist
       ELSE \E batch \in {fetch_studies_batch(registry, endless, gen.query_filters,
                                                gen.next_token, transport) :
                               transport \in Transports} :
               LET failed == batch.raised
               IN  /\ hist' = [hist EXCEPT
                                 !.pages = @ + 1,
                                 !.fetch_failed = @ \/ failed,
                                 !.requests = Append(@, batch.request),
                                 !.responses = Append(@,
                                     IF failed THEN NoResponse
                                     ELSE [ok |-> TRUE, studies |-> batch.studies,
                                           next_page_token |-> batch.next_page_token])]
                   /\ gen' = IF failed
                             THEN [gen EXCEPT !.phase = "done"]
                             ELSE [gen EXCEPT !.phase = "yielding",
                                              !.buf = batch.studies,
                                              !.batch_next = batch.next_page_token,
                                              !.has_more = batch.has_more]
    /\ UNCHANGED <<cfg, registry, store, pc, stats, studies_processed, cur, attempt,
                   last_error, result, trk, log, prev, endless, call>>

\* whether the loop of the stream breaks at a page: the request raised, or
\* no study is left after filtering
\* a stream that breaks at a page only when the response had no further token
BreaksAt_TokenOnly(failed, studies, has_more) == failed \/ (studies = <<>> /\ ~has_more)

BreaksAt(failed, studies, has_more) == failed \/ studies = <<>>

FetchPage ==
    /\ pc \in Consumers
    /\ gen.phase = "need_fetch"
    /\ IF gen.page_count >= gen.max_pages
       THEN /\ gen' = [gen EXCEPT !.phase = "done"]
            /\ UNCHANGED hist
       ELSE \E batch \in {fetch_studies_batch(registry, endless, gen.query_filters,
                                                gen.next_token, transport) :
                               transport \in Transports} :
               LET failed == batch.raised
               IN  /\ hist' = [hist EXCEPT
                                 !.pages = @ + 1,
                                 !.fetch_failed = @ \/ failed,
                                 !.requests = Append(@, batch.request),
                                 !.responses = Append(@,
                                     IF failed THEN NoResponse
                                     ELSE [ok |-> TRUE, studies |-> batch.studies,
                                           next_page_token |-> batch.next_page_token])]
                   /\ gen' = IF BreaksAt(failed, batch.studies, batch.has_more)
                             THEN [gen EXCEPT !.phase = "done"]
                             ELSE [gen EXCEPT !.phase = "yielding",
                                              !.buf = batch.studies,
                                              !.batch_next = batch.next_page_token,
                                              !.has_more = batch.has_more]
    /\ UNCHANGED <<cfg, registry, store, pc, stats, studies_processed, cur, attempt,
                   last_error, result, trk, log, prev, endless, call>>

\* a stream that sends every request with the token of the first
PageDone_KeepsToken ==
    /\ pc \in Consumers
    /\ gen.phase = "yielding"
    /\ gen.buf = <<>>
    /\ gen' = IF gen.has_more
              THEN [gen EXCEPT !.page_count = @ + 1, !.next_token = gen.next_token,
                               !.phase = "need_fetch", !.slept = @ + 1]
              ELSE [gen EXCEPT !.page_count = @ + 1, !.next_token = gen.next_token,
                               !.phase = "done"]
    /\ UNCHANGED <<cfg, registry, store, pc, stats, studies_processed, cur, attempt,
                   last_error, result, trk, log, hist, prev, endless, call>>

PageDone ==
    /\ pc \in Consumers
    /\ gen.phase = "yielding"
    /\ gen.buf = <<>>
    /\ gen' = IF gen.has_more
              THEN [gen EXCEPT !.page_count = @ + 1, !.next_token = gen.batch_next,
                               !.phase = "need_fetch", !.slept = @ + 1]
              ELSE [gen EXCEPT !.page_count = @ + 1, !.next_token = gen.batch_next,
                               !.phase = "done"]
    /\ UNCHANGED <<cfg, registry, store, pc, stats, studies_processed, cur, attempt,
                   last_error, result, trk, log, hist, prev, endless, call>>

\* a failed page fetch that reaches the caller of ingest_studies as an exception
StreamEnd_Raises ==
    /\ pc = "pull"
    /\ gen.phase = "done"
    /\ pc' = IF hist.fetch_failed THEN "raised" ELSE "finalize"
    /\ hist' = [hist EXCEPT !.endedBy = "exhausted"]
    /\ UNCHANGED <<cfg, registry, store, stats, studies_processed, gen, cur, attempt,
                   last_error, result, trk, log, prev, endless, call>>

StreamEnd ==
    /\ pc = "pull"
    /\ gen.phase = "done"
    /\ pc' = "finalize"
    /\ hist' = [hist EXCEPT !.endedBy = "exhausted"]
    /\ UNCHANGED <<cfg, registry, store, stats, studies_processed, gen, cur, attempt,
                   last_error, result, trk, log, prev, endless, call>>

\* a loop that processes every record the stream yields
Pull_Unchecked ==
    /\ pc = "pull"
    /\ gen.phase = "yielding"
    /\ gen.buf # <<>>
    /\ gen' = [gen EXCEPT !.buf = Tail(@)]
    /\ pc' = IF cfg.retry_attempts > 0 THEN "attempt" ELSE "count"
    /\ result' = IF cfg.retry_attempts > 0 THEN result ELSE NoResult
    /\ stats' = [stats EXCEPT !.total_fetched = @ + 1]
    /\ cur' = Head(gen.buf)
    /\ attempt' = 0
    /\ last_error' = <<>>
    /\ trk' = [NoTrack EXCEPT !.file_before =
                  IF Head(gen.buf).nctId = NoId THEN "absent"
                  ELSE store[Head(gen.buf).nctId].file]
    /\ hist' = [hist EXCEPT !.yielded = Append(@, Head(gen.buf))]
    /\ UNCHANGED <<cfg, registry, store, studies_processed, log, prev, endless, call>>

\* one iteration of the for loop of ingest_studies, up to the retry wrapper;
\* with retry_attempts <= 0 the loop of _process_with_retry has no pass and
\* the wrapper returns (False, None, "") at once
Pull ==
    /\ pc = "pull"
    /\ gen.phase = "yielding"
    /\ gen.buf # <<>>
    /\ gen' = [gen EXCEPT !.buf = Tail(@)]
    /\ IF studies_processed >= max_studies
       THEN /\ pc' = "finalize"
            /\ hist' = [hist EXCEPT !.endedBy = "max", !.yielded = Append(@, Head(gen.buf))]
            /\ UNCHANGED <<stats, cur, attempt, last_error, trk, result>>
       ELSE /\ pc' = IF cfg.retry_attempts > 0 THEN "attempt" ELSE "count"
            /\ result' = IF cfg.retry_attempts > 0 THEN result ELSE NoResult
            /\ stats' = [stats EXCEPT !.total_fetched = @ + 1]
            /\ cur' = Head(gen.buf)
            /\ attempt' = 0
            /\ last_error' = <<>>
            /\ trk' = [NoTrack EXCEPT !.file_before =
                          IF Head(gen.buf).nctId = NoId THEN "absent"
                          ELSE store[Head(gen.buf).nctId].file]
            /\ hist' = [hist EXCEPT !.yielded = Append(@, Head(gen.buf))]
    /\ UNCHANGED <<cfg, registry, store, studies_processed, log, prev, endless, call>>

\* ----------------------------------------------------- _process_with_retry
Range(f) == {f[i] : i \in DOMAIN f}

Count(seq, x) == Cardinality({i \in DOMAIN seq : seq[i] = x})

\* how one pass of the retry loop ends, given what process_single_study returned
\* a retry loop that gives up after the first failure
RetryDecision_NoRetry(success, error_msg, att, retry_attempts) ==
    IF success \/ error_msg = AlreadyExists THEN "return"
    ELSE IF IsValidationError(error_msg) THEN "break"
    ELSE "exhausted"

RetryDecision(success, error_msg, att, retry_attempts) ==
    IF success \/ error_msg = AlreadyExists THEN "return"
    ELSE IF IsValidationError(error_msg) THEN "break"
    ELSE IF att < retry_attempts - 1 THEN "sleep"
    ELSE "exhausted"

\* the length of the sleep after the failed pass numbered att (from 0)
\* a retry loop that waits the same time after every failure
RetryWait_Flat(delay, att) == delay

RetryWait(delay, att) == delay * (att + 1)

\* the message of an exception that process_single_study caught
IsFailure(error_msg) ==
    Len(error_msg) >= Len(FailedPrefix) /\ SubSeq(error_msg, 1, Len(FailedPrefix)) = FailedPrefix

AttemptLabel(o) ==
    IF o.success THEN "success"
    ELSE IF o.error_msg = AlreadyExists THEN "duplicate"
    ELSE IF o.calls = <<"should_process_study">> /\ ~IsFailure(o.error_msg) THEN "rejected"
    ELSE "error"

Attempt ==
    /\ pc = "attempt"
    /\ attempt < cfg.retry_attempts
    /\ \E fault \in Faults :
        \E o \in {process_single_study(cur, store, fault, cfg)} :
        \E d \in {RetryDecision(o.success, o.error_msg, attempt, cfg.retry_attempts)} :
              /\ fault # "none" => "save_study" \in Range(o.calls)
              /\ store' = o.store
              /\ trk' = [trk EXCEPT !.attempts = @ + 1,
                                    !.outcomes = Append(@, AttemptLabel(o)),
                                    !.calls = Append(@, o.calls),
                                    !.errors = Append(@, o.error_msg),
                                    !.faulted = @ \/ fault # "none",
                                    !.sleeps = IF d = "sleep" /\ cfg.retry_delay >= 0
                                               THEN Append(@, RetryWait(cfg.retry_delay, attempt))
                                               ELSE @]
              /\ hist' = [hist EXCEPT
                            !.reads = @ + Count(o.calls, "get_study"),
                            !.writes = @ + Count(o.calls, "save_study"),
                            !.saves = IF "save_study" \in Range(o.calls)
                                      THEN [@ EXCEPT ![cur.nctId] = @ + 1] ELSE @,
                            !.endedBy = IF d = "sleep" /\ cfg.retry_delay < 0
                                        THEN "exception" ELSE @]
              /\ CASE d = "return" ->
                        /\ result' = [success |-> o.success, study |-> o.study,
                                      error_msg |-> o.error_msg]
                        /\ pc' = "count"
                        /\ UNCHANGED <<attempt, last_error>>
                   [] d = "break" ->
                        /\ result' = [success |-> FALSE, study |-> NoStudy,
                                      error_msg |-> o.error_msg]
                        /\ last_error' = o.error_msg
                        /\ pc' = "count"
                        /\ UNCHANGED attempt
                   [] d = "sleep" /\ cfg.retry_delay < 0 ->
                        \* time.sleep raises ValueError for a negative length, at
                        \* line 278 and again in the handler at line 283
                        /\ last_error' = o.error_msg
                        /\ pc' = "finalize"
                        /\ UNCHANGED <<attempt, result>>
                   [] d = "sleep" ->
                        /\ last_error' = o.error_msg
                        /\ attempt' = attempt + 1
                        /\ UNCHANGED <<pc, result>>
                   [] OTHER ->
                        /\ result' = [success |-> FALSE, study |-> NoStudy,
                                      error_msg |-> o.error_msg]
                        /\ last_error' = o.error_msg
                        /\ attempt' = attempt + 1
                        /\ pc' = "count"
    /\ UNCHANGED <<cfg, registry, stats, studies_processed, gen, cur, log, prev, endless, call>>

\* ------------------------------------------- counting, lines 225 to 237
\* a loop that counts a saved record as failed
Bucket_NeverSuccess(success, error_msg) ==
    IF error_msg = AlreadyExists THEN "duplicate" ELSE "failed"

Bucket(success, error_msg) ==
    IF success THEN "success"
    ELSE IF error_msg = AlreadyExists THEN "duplicate"
    ELSE "failed"

\* a loop that never stops on a failure
Halts_Never(bucket, continue_on_error) == FALSE

Halts(bucket, continue_on_error) == bucket = "failed" /\ ~continue_on_error

\* a loop that counts the results flag of every record, saved or not
Tally_ResultsOfAll(st, bucket, study) ==
    CASE bucket = "success" ->
            [st EXCEPT !.successfully_processed = @ + 1, !.studies_with_results = @ + 1]
      [] bucket = "duplicate" ->
            [st EXCEPT !.duplicate_studies = @ + 1, !.studies_with_results = @ + 1]
      [] OTHER -> [st EXCEPT !.failed_processing = @ + 1, !.studies_with_results = @ + 1]

Tally(st, bucket, study) ==
    CASE bucket = "success" ->
            [st EXCEPT !.successfully_processed = @ + 1,
                       !.studies_with_results =
                           IF ~study.none /\ study.has_results THEN @ + 1 ELSE @]
      [] bucket = "duplicate" -> [st EXCEPT !.duplicate_studies = @ + 1]
      [] OTHER -> [st EXCEPT !.failed_processing = @ + 1]

LogEntry(bucket) ==
    [rec |-> cur, bucket |-> bucket, attempts |-> trk.attempts, sleeps |-> trk.sleeps,
     outcomes |-> trk.outcomes, calls |-> trk.calls, errors |-> trk.errors,
     faulted |-> trk.faulted,
     file_before |-> trk.file_before, error_msg |-> result.error_msg]

\* "if studies_processed % self.config.batch_size == 0" (line 240): the
\* modulo raises ZeroDivisionError for a batch size of 0
ProgressDue(processed, size) ==
    IF size = 0 THEN "raise" ELSE IF processed % size = 0 THEN "report" ELSE "silent"

\* the rest of the loop body after _process_with_retry returned, for a
\* batch size: the counters, then the progress report
CountEffect(size) ==
    LET bucket == Bucket(result.success, result.error_msg)
        due == ProgressDue(studies_processed + 1, size)
    IN  IF Halts(bucket, cfg.continue_on_error)
        THEN [pc |-> "finalize", studies_processed |-> studies_processed,
              stats |-> Tally(stats, bucket, result.study),
              hist |-> [hist EXCEPT !.endedBy = "halt"]]
        ELSE [pc |-> IF due = "raise" THEN "finalize" ELSE "pull",
              studies_processed |-> studies_processed + 1,
              stats |-> Tally(stats, bucket, result.study),
              hist |-> [hist EXCEPT !.endedBy = IF due = "raise" THEN "exception" ELSE @,
                                    !.reports = IF due = "report" THEN @ + 1 ELSE @]]

CountResult ==
    /\ pc = "count"
    /\ \E effect \in {CountEffect(cfg.batch_size)} :
           /\ stats' = effect.stats
           /\ log' = Append(log, LogEntry(Bucket(result.success, result.error_msg)))
           /\ pc' = effect.pc
           /\ hist' = effect.hist
           /\ studies_processed' = effect.studies_processed
    /\ UNCHANGED <<cfg, registry, store, gen, cur, attempt, last_error, result, trk,
                   prev, endless, call>>

\* An exception that escapes the loop body (line 247): the except clause
\* logs it and the run goes on to the finally clause.
LoopException ==
    /\ pc \in {"pull", "count"}
    /\ pc' = "finalize"
    /\ hist' = [hist EXCEPT !.endedBy = "exception"]
    /\ UNCHANGED <<cfg, registry, store, stats, studies_processed, gen, cur, attempt,
                   last_error, result, trk, log, prev, endless, call>>

\* an interrupt that leaves the run without the finally clause
Interrupt_NoFinally ==
    /\ pc \in {"pull", "attempt", "count"}
    /\ pc' = "raised"
    /\ hist' = [hist EXCEPT !.endedBy = "interrupt"]
    /\ UNCHANGED <<cfg, registry, store, stats, studies_processed, gen, cur, attempt,
                   last_error, result, trk, log, prev, endless, call>>

\* KeyboardInterrupt between or during records: no except clause catches
\* it, the finally clause runs and the interrupt propagates.
Interrupt ==
    /\ pc \in {"pull", "attempt", "count"}
    /\ pc' = "finalize"
    /\ hist' = [hist EXCEPT !.endedBy = "interrupt"]
    /\ UNCHANGED <<cfg, registry, store, stats, studies_processed, gen, cur, attempt,
                   last_error, result, trk, log, prev, endless, call>>

\* the finally clause: end_time and _log_ingestion_summary (which reads
\* the store's statistics)
Finalize ==
    /\ pc = "finalize"
    /\ stats' = [stats EXCEPT !.end_time = TRUE]
    /\ hist' = [hist EXCEPT !.finalized = @ + 1,
                            !.summary = [stats EXCEPT !.end_time = TRUE],
                            !.reads = @ + 1]
    /\ pc' = IF hist.endedBy = "interrupt" THEN "raised" ELSE "returned"
    /\ UNCHANGED <<cfg, registry, store, studies_processed, gen, cur, attempt,
                   last_error, result, trk, log, prev, endless, call>>

Next ==
    \/ Start
    \/ TestConnection
    \/ FetchPage
    \/ PageDone
    \/ StreamEnd
    \/ Pull
    \/ Attempt
    \/ CountResult
    \/ LoopException
    \/ Interrupt
    \/ Finalize

Spec == Init /\ [][Next]_vars

\* A single-threaded program keeps executing: every step that is enabled is
\* eventually taken (sleeps and HTTP calls are bounded by their timeouts).
FairSpec == Spec /\ WF_vars(Next)

\* Runs under every progress cadence, the one that divides by zero included.
MaxBatch == 2       \* largest batch_size of a configuration

ProgressConfigs == {[c EXCEPT !.batch_size = size] : c \in Configs, size \in 0..MaxBatch}

ProgressInit ==
    /\ cfg \in ProgressConfigs
    /\ registry \in SeqsUpTo(RecordUniverse, MaxRegistry)
    /\ store \in InitialStores
    /\ pc = "idle"
    /\ stats = ZeroStats
    /\ studies_processed = 0
    /\ gen = NoGen
    /\ cur = Base(NoId)
    /\ attempt = 0
    /\ last_error = <<>>
    /\ result = NoResult
    /\ trk = NoTrack
    /\ log = <<>>
    /\ hist = NoHist
    /\ prev = NoPrev
    /\ endless = FALSE
    /\ call = NoCall

SpecProgress == ProgressInit /\ [][Next]_vars

\* Runs under every sign of retry_delay.
DelayConfigs ==
    {[c EXCEPT !.retry_delay = delay] : c \in Configs, delay \in {-retry_delay, 0, retry_delay}}

DelayInit ==
    /\ cfg \in DelayConfigs
    /\ registry \in SeqsUpTo(RecordUniverse, MaxRegistry)
    /\ store \in InitialStores
    /\ pc = "idle"
    /\ stats = ZeroStats
    /\ studies_processed = 0
    /\ gen = NoGen
    /\ cur = Base(NoId)
    /\ attempt = 0
    /\ last_error = <<>>
    /\ result = NoResult
    /\ trk = NoTrack
    /\ log = <<>>
    /\ hist = NoHist
    /\ prev = NoPrev
    /\ endless = FALSE
    /\ call = NoCall

SpecDelay == DelayInit /\ [][Next]_vars

\* Runs with and without the results filter of should_process_study.
ResultsConfigs ==
    {[c EXCEPT !.filter_has_results_only = only] : c \in Configs, only \in BOOLEAN}

ResultsInit ==
    /\ cfg \in ResultsConfigs
    /\ registry \in SeqsUpTo(RecordUniverse, MaxRegistry)
    /\ store \in InitialStores
    /\ pc = "idle"
    /\ stats = ZeroStats
    /\ studies_processed = 0
    /\ gen = NoGen
    /\ cur = Base(NoId)
    /\ attempt = 0
    /\ last_error = <<>>
    /\ result = NoResult
    /\ trk = NoTrack
    /\ log = <<>>
    /\ hist = NoHist
    /\ prev = NoPrev
    /\ endless = FALSE
    /\ call = NoCall

SpecResults == ResultsInit /\ [][Next]_vars

\* Runs with up to MaxBackoff passes per record and delays of either sign.
MaxBackoff == 3

BackoffConfigs ==
    {[c EXCEPT !.retry_attempts = n, !.retry_delay = delay] :
        c \in {k \in Configs : k.max_studies_per_run = MaxStudies /\ k.continue_on_error},
        n \in 1..MaxBackoff, delay \in {-retry_delay, 0, retry_delay, 2 * retry_delay}}

BackoffInit ==
    /\ cfg \in BackoffConfigs
    /\ registry \in SeqsUpTo(RecordUniverse, MaxRegistry)
    /\ store \in InitialStores
    /\ pc = "idle"
    /\ stats = ZeroStats
    /\ studies_processed = 0
    /\ gen = NoGen
    /\ cur = Base(NoId)
    /\ attempt = 0
    /\ last_error = <<>>
    /\ result = NoResult
    /\ trk = NoTrack
    /\ log = <<>>
    /\ hist = NoHist
    /\ prev = NoPrev
    /\ endless = FALSE
    /\ call = NoCall

SpecBackoff == BackoffInit /\ [][Next]_vars

\* The same ingestor called again: the second run meets the store the first left.
NextRerun == Next \/ Restart

SpecRerun == Init /\ [][NextRerun]_vars

\* ------------------------------------------- the client without the ingestor
MaxPages == 2       \* largest max_pages a caller of the stream passes

\* every variable of the ingestor at rest
IngestorIdle ==
    /\ cfg \in {c \in Configs : c.max_studies_per_run = 1 /\ c.retry_attempts = 1
                                 /\ c.continue_on_error}
    /\ store = [id \in IDs |-> NoFile]
    /\ stats = ZeroStats
    /\ studies_processed = 0
    /\ cur = Base(NoId)
    /\ attempt = 0
    /\ last_error = <<>>
    /\ result = NoResult
    /\ trk = NoTrack
    /\ log = <<>>
    /\ prev = NoPrev

ingestor_vars ==
    <<cfg, store, stats, studies_processed, cur, attempt, last_error, result, trk, log, prev>>

\* the filters of create_default_filters_for_prediction_market
create_default_filters_for_prediction_market ==
    [NoFilters EXCEPT !.keys = {"has_results", "overall_status", "study_type"},
                      !.has_results = TRUE,
                      !.overall_status = List(<<"COMPLETED">>),
                      !.study_type = "INTERVENTIONAL"]

StreamFilters ==
    {NoFilters, build_query_filters, create_default_filters_for_prediction_market,
     [NoFilters EXCEPT !.keys = {"has_results"}, !.has_results = TRUE]}

StreamRecords ==
    {Base("NCT1"), Base("NCT2"), [Base("NCT1") EXCEPT !.hasResults = FALSE],
     [Base("NCT2") EXCEPT !.null = {"protocolSection"}]}

\* a caller iterates fetch_studies_stream(query_filters, max_pages) to its end;
\* max_pages 0 stands for the argument left out
StreamInit ==
    /\ IngestorIdle
    /\ registry \in SeqsUpTo(StreamRecords, MaxRegistry)
    /\ endless \in BOOLEAN
    /\ call \in {[fn |-> "fetch_studies_stream", query_filters |-> qf, max_pages |-> mp] :
                    qf \in StreamFilters, mp \in 0..MaxPages}
    /\ gen = fetch_studies_stream(call.query_filters, call.max_pages)
    /\ hist = NoHist
    /\ pc = "stream"

\* the caller takes the next study the generator yields
Consume ==
    /\ pc = "stream"
    /\ gen.phase = "yielding"
    /\ gen.buf # <<>>
    /\ gen' = [gen EXCEPT !.buf = Tail(@)]
    /\ hist' = [hist EXCEPT !.yielded = Append(@, Head(gen.buf))]
    /\ UNCHANGED <<ingestor_vars, registry, pc, endless, call>>

\* the generator returns: the caller's loop ends
StreamClosed ==
    /\ pc = "stream"
    /\ gen.phase = "done"
    /\ pc' = "stream_done"
    /\ UNCHANGED <<ingestor_vars, registry, gen, hist, endless, call>>

NextStream ==
    \/ FetchPage
    \/ PageDone
    \/ Consume
    \/ StreamClosed

SpecStream == StreamInit /\ [][NextStream]_vars

\* the caller keeps iterating and every request returns or times out
FairSpecStream == SpecStream /\ WF_vars(NextStream)

\* Calls with zero-valued limits: ingest_studies(max_studies = a) under a
\* configuration with retry_attempts and max_studies_per_run from 0, and
\* fetch_studies_stream(max_pages = mp) with mp from 0.
ZeroConfigs ==
    {[c EXCEPT !.retry_attempts = n, !.max_studies_per_run = m] :
        c \in {k \in Configs : k.retry_attempts = 1 /\ k.max_studies_per_run = 1},
        n \in 0..1, m \in 0..MaxStudies}

IngestCalls ==
    {[fn |-> "ingest_studies", max_studies |-> a] : a \in {PyNone} \cup 0..MaxStudies}

ZeroInit ==
    \/ /\ cfg \in ZeroConfigs
       /\ call \in IngestCalls
       /\ registry \in SeqsUpTo(RecordUniverse, MaxRegistry)
       /\ store \in InitialStores
       /\ pc = "idle"
       /\ stats = ZeroStats
       /\ studies_processed = 0
       /\ gen = NoGen
       /\ cur = Base(NoId)
       /\ attempt = 0
       /\ last_error = <<>>
       /\ result = NoResult
       /\ trk = NoTrack
       /\ log = <<>>
       /\ hist = NoHist
       /\ prev = NoPrev
       /\ endless = FALSE
    \/ StreamInit

NextZero == Next \/ Consume \/ StreamClosed

SpecZero == ZeroInit /\ [][NextZero]_vars

\* A client whose stream is called again, after the earlier generator was
\* iterated to its end or dropped part-way.
MaxStreams == 2     \* calls of fetch_studies_stream on one client

\* the filters and page limits the calls are made with
RestreamCalls ==
    {[fn |-> "fetch_studies_stream", query_filters |-> qf, max_pages |-> mp] :
        qf \in {NoFilters, build_query_filters}, mp \in 0..MaxPages}

\* what is remembered of the earlier call: how far it went and how it was left
Earlier ==
    [NoPrev EXCEPT !.valid = TRUE,
                   !.hist = [NoHist EXCEPT !.pages = hist.pages, !.yielded = hist.yielded,
                                           !.endedBy = IF gen.phase = "done" THEN "exhausted"
                                                       ELSE "abandoned"]]

RestreamInit ==
    /\ IngestorIdle
    /\ registry \in SeqsUpTo({Base("NCT1"), Base("NCT2")}, MaxRegistry)
    /\ endless = FALSE
    /\ call \in RestreamCalls
    /\ gen = fetch_studies_stream(call.query_filters, call.max_pages)
    /\ hist = NoHist
    /\ pc = "stream"

\* a stream call that takes up the pagination where the earlier one stood
StreamAgain_Resumes ==
    /\ pc \in {"stream", "stream_done"}
    /\ hist.run + 1 < MaxStreams
    /\ \E again \in RestreamCalls :
          /\ call' = again
          /\ gen' = [gen EXCEPT !.phase = "need_fetch", !.buf = <<>>,
                                !.query_filters = again.query_filters,
                                !.max_pages = OrDefault(again.max_pages, max_pages_default)]
    /\ prev' = Earlier
    /\ hist' = [NoHist EXCEPT !.run = hist.run + 1]
    /\ pc' = "stream"
    /\ UNCHANGED <<cfg, store, stats, studies_processed, cur, attempt, last_error,
                   result, trk, log, registry, endless>>

\* fetch_studies_stream called on a client that streamed before: the new
\* generator has its own page_count, next_token and total_fetched (lines
\* 298-301), and the client object holds nothing but its configuration
StreamAgain ==
    /\ pc \in {"stream", "stream_done"}
    /\ hist.run + 1 < MaxStreams
    /\ \E again \in RestreamCalls :
          /\ call' = again
          /\ gen' = fetch_studies_stream(again.query_filters, again.max_pages)
    /\ prev' = Earlier
    /\ hist' = [NoHist EXCEPT !.run = hist.run + 1]
    /\ pc' = "stream"
    /\ UNCHANGED <<cfg, store, stats, studies_processed, cur, attempt, last_error,
                   result, trk, log, registry, endless>>

NextRestream == NextStream \/ StreamAgain

SpecRestream == RestreamInit /\ [][NextRestream]_vars

\* ------------------------------------------------- functions applied once
MaxListLen == 2     \* longest list of studies, statuses or conditions passed in

\* a raw record from the choice made for each field: a value, "absent" (the
\* key is missing) or "null"
MakeRecord(id, h, t, s, i, o, absent, null) ==
    LET choice == [hasResults |-> h, studyType |-> t, overallStatus |-> s,
                   interventions |-> i, primaryOutcomes |-> o]
        value(c) == IF c \in {"absent", "null"} THEN "" ELSE c
        count(c) == IF c = "1" THEN 1 ELSE 0
    IN  [nctId |-> id,
         hasResults |-> h = "true",
         studyType |-> value(t),
         overallStatus |-> value(s),
         interventions |-> count(i),
         primaryOutcomes |-> count(o),
         absent |-> absent \cup {f \in DOMAIN choice : choice[f] = "absent"},
         null |-> null \cup {f \in DOMAIN choice : choice[f] = "null"}]

\* the stream, the call and the ingestor at rest while one function is applied
CallInit ==
    /\ IngestorIdle
    /\ registry = <<>>
    /\ endless = FALSE
    /\ gen = NoGen
    /\ hist = NoHist
    /\ pc = "call"

\* the call returns or raises
Return(value) ==
    /\ pc = "call"
    /\ ~call.done
    /\ call' = [call EXCEPT !.done = TRUE, !.ret = value]
    /\ UNCHANGED <<ingestor_vars, registry, gen, hist, pc, endless>>

\* ---- _filter_studies
FilterRecords ==
    {MakeRecord("NCT1", h, t, s, "1", "1", {}, {}) :
        h \in {"true", "false", "absent"},
        t \in {"INTERVENTIONAL", "interventional", "OBSERVATIONAL", "absent"},
        s \in {"COMPLETED", "RECRUITING", "absent"}}
    \cup {MakeRecord("NCT1", "true", "null", "COMPLETED", "1", "1", {}, {}),
          MakeRecord("NCT1", "true", "INTERVENTIONAL", "null", "1", "1", {}, {}),
          [Base("NCT1") EXCEPT !.null = {"protocolSection"}],
          [Base("NCT1") EXCEPT !.absent = {"protocolSection"}],
          [Base("NCT1") EXCEPT !.null = {"designModule"}]}

PostFilterKeys == {"has_results", "overall_status", "study_type"}

\* the filter sets over the three keys _filter_studies reads
PostFilterSets ==
    {[NoFilters EXCEPT !.keys = K, !.has_results = hr, !.overall_status = os,
                       !.study_type = st] :
        K \in SUBSET PostFilterKeys,
        hr \in BOOLEAN,
        os \in {List(<<>>), Str("COMPLETED"), List(<<"COMPLETED", "ACTIVE_NOT_RECRUITING">>)},
        st \in {"", "INTERVENTIONAL", "interventional"}}

\* one filter set for each dict: a key that is not held has its NoFilters value
Canonical(qf) ==
    \A k \in DOMAIN qf : (k # "keys" /\ k \notin qf.keys) => qf[k] = NoFilters[k]

FilterInit ==
    /\ CallInit
    /\ call \in {[fn |-> "_filter_studies", studies |-> studies, query_filters |-> qf,
                  done |-> FALSE, ret |-> [raised |-> FALSE, studies |-> <<>>]] :
                    studies \in SeqsUpTo(FilterRecords, MaxListLen),
                    qf \in {f \in PostFilterSets :
                              /\ Canonical(f)
                              /\ "study_type" \in f.keys => f.study_type # ""
                              /\ "overall_status" \in f.keys => f.overall_status.v # <<>>}}

Call_filter_studies ==
    /\ call.fn = "_filter_studies"
    /\ Return(_filter_studies(call.studies, call.query_filters))

SpecFilter == FilterInit /\ [][Call_filter_studies]_vars

\* ---- _build_request_url
ConditionNames == {"anxiety", "depression"}

StatusNames == {"COMPLETED", "RECRUITING"}

\* a string or a list of up to MaxListLen strings
StrOrList(names) ==
    {Str(n) : n \in names} \cup {List(l) : l \in SeqsUpTo(names, MaxListLen)}

UrlFilterKeys ==
    {"intervention_type", "conditions", "overall_status", "has_results", "study_type"}

\* the filter sets over the five keys a caller may pass
UrlFilterSets ==
    {f \in {[keys |-> K, intervention_type |-> it, conditions |-> cs,
             overall_status |-> os, has_results |-> hr, study_type |-> st] :
                K \in SUBSET UrlFilterKeys,
                it \in {"", "BEHAVIORAL"},
                cs \in StrOrList(ConditionNames),
                os \in StrOrList(StatusNames),
                hr \in BOOLEAN,
                st \in {"", "INTERVENTIONAL"}} :
        /\ Canonical(f)
        /\ "intervention_type" \in f.keys => f.intervention_type # ""
        /\ "study_type" \in f.keys => f.study_type # ""}

UrlInit ==
    /\ CallInit
    /\ call \in {[fn |-> "_build_request_url", query_filters |-> qf, page_token |-> t,
                  done |-> FALSE,
                  ret |-> [raised |-> FALSE, url |-> _build_request_url(NoFilters, 0)]] :
                    qf \in UrlFilterSets, t \in 0..1}

Call_build_request_url ==
    /\ call.fn = "_build_request_url"
    /\ Return([raised |-> FALSE,
               url |-> _build_request_url(call.query_filters, call.page_token)])

SpecUrl == UrlInit /\ [][Call_build_request_url]_vars

\* ---- should_process_study
\* the sections should_process_study reads
EligibilitySections ==
    {"protocolSection", "designModule", "statusModule", "armsInterventionsModule",
     "outcomesModule"}

\* no section missing, or one section missing or null
SectionHoles ==
    {[absent |-> {}, null |-> {}]}
    \cup {[absent |-> {m}, null |-> {}] : m \in EligibilitySections}
    \cup {[absent |-> {}, null |-> {m}] : m \in EligibilitySections}

EligibilityRecords ==
    {MakeRecord("NCT1", h, t, s, i, o, holes.absent, holes.null) :
        h \in {"true", "false", "absent"},
        t \in {"INTERVENTIONAL", "interventional", "OBSERVATIONAL", "absent", "null"},
        s \in {"COMPLETED", "ACTIVE_NOT_RECRUITING", "ENROLLING_BY_INVITATION",
               "RECRUITING", "absent", "null"},
        i \in {"1", "0", "absent", "null"},
        o \in {"1", "0", "absent", "null"},
        holes \in SectionHoles}

EligibilityConfigs ==
    [filter_has_results_only : BOOLEAN, filter_completed_only : BOOLEAN]

EligibleInit ==
    /\ CallInit
    /\ call \in {[fn |-> "should_process_study", api_response |-> r, config |-> c,
                  done |-> FALSE, ret |-> Accept] :
                    r \in EligibilityRecords, c \in EligibilityConfigs}

Call_should_process_study ==
    /\ call.fn = "should_process_study"
    /\ Return(should_process_study(call.api_response, call.config))

SpecEligible == EligibleInit /\ [][Call_should_process_study]_vars

\* ---- map_to_study_object and process_single_study
MaxHoles == 2       \* keys of one record that are missing or null

\* the keys of a record that may be missing or null
RecordKeys == Modules \cup Fields \cup {"protocolSection", "resultsSection"}

\* up to MaxHoles keys, each missing or null
Holes == SeqsUpTo(RecordKeys \X {"absent", "null"}, MaxHoles)

KeysOf(holes, kind) == {holes[i][1] : i \in {j \in DOMAIN holes : holes[j][2] = kind}}

\* the eligible record with up to MaxHoles of its keys missing or null, and
\* with its interventions list empty or not
MapperRecords ==
    {[Base("NCT1") EXCEPT !.absent = KeysOf(holes, "absent"),
                          !.null = KeysOf(holes, "null") \ KeysOf(holes, "absent"),
                          !.interventions = i] :
        holes \in Holes, i \in 0..1}

\* records that differ in the flag and in the presence of a results section
FlagRecords ==
    {MakeRecord("NCT1", h, "INTERVENTIONAL", s, "1", "1", A, {}) :
        h \in {"true", "false", "absent"},
        s \in {"COMPLETED", "RECRUITING"},
        A \in SUBSET {"resultsSection", "conditionsModule"}}

PipelineConfigs ==
    [filter_has_results_only : BOOLEAN, filter_completed_only : BOOLEAN,
     save_raw_data : BOOLEAN]

MapperInit ==
    /\ CallInit
    /\ \/ call \in {[fn |-> "map_to_study_object",
                      raw_data |-> RawStudyData("NCT1", r, ResultsSection(r), h),
                      done |-> FALSE,
                      ret |-> [raised |-> FALSE, text |-> <<>>, study |-> NoStudy]] :
                        r \in MapperRecords, h \in BOOLEAN}
       \/ call \in {[fn |-> "process_single_study", api_response |-> r, store |-> st,
                      fault |-> fault, config |-> c, done |-> FALSE,
                      ret |-> Outcome(FALSE, NoStudy, <<>>, st, <<>>)] :
                        r \in FlagRecords, st \in InitialStores, fault \in Faults,
                        c \in PipelineConfigs}

Call_map_to_study_object ==
    /\ call.fn = "map_to_study_object"
    /\ Return(map_to_study_object(call.raw_data))

Call_process_single_study ==
    /\ call.fn = "process_single_study"
    /\ Return(process_single_study(call.api_response, call.store, call.fault, call.config))

NextMapper == Call_map_to_study_object \/ Call_process_single_study

SpecMapper == MapperInit /\ [][NextMapper]_vars

\* ---- extract_raw_study_data, map_study_status and parse_date
\* the keys extract_raw_study_data reads
ExtractKeys == {"protocolSection", "identificationModule", "nctId", "resultsSection"}

\* responses with and without an id, with up to MaxHoles keys missing or null
ExtractRecords ==
    {[Base(id) EXCEPT !.absent = KeysOf(holes, "absent"),
                      !.null = KeysOf(holes, "null") \ KeysOf(holes, "absent"),
                      !.hasResults = h] :
        id \in IDs \cup {NoId},
        holes \in SeqsUpTo(ExtractKeys \X {"absent", "null"}, MaxHoles),
        h \in BOOLEAN}

ExtractCalls ==
    {[fn |-> "extract_raw_study_data", api_response |-> r, done |-> FALSE,
      ret |-> [raised |-> FALSE, text |-> <<>>, raw |-> NoRaw(r)]] :
        r \in ExtractRecords}

Call_extract_raw_study_data ==
    /\ call.fn = "extract_raw_study_data"
    /\ Return(extract_raw_study_data(call.api_response))

\* the strings map_study_status is given: the codes of the table, other
\* spellings of some of them, strings outside the table, '' and None
StatusInputs ==
    StudyStatuses
    \cup {"completed", "Completed", "withdrawn", "recruiting", "Terminated", "unknown",
          "FOO", "foo", "", "None"}

StatusCalls ==
    {[fn |-> "map_study_status", status_str |-> s, done |-> FALSE,
      ret |-> [raised |-> FALSE, status |-> "UNKNOWN"]] : s \in StatusInputs}

Call_map_study_status ==
    /\ call.fn = "map_study_status"
    /\ Return([raised |-> FALSE, status |-> map_study_status(call.status_str)])

\* the values a component of a date structure takes
DateYears ==
    {Comp("absent", 0), Comp("null", 0), Comp("int", 0), Comp("int", 2020),
     Comp("int", 2021), Comp("int", 10000), Comp("numstr", 2020), Comp("float", 2020),
     Comp("str", 0), Comp("huge", 0), Comp("inf", 0)}

DateMonths ==
    {Comp("absent", 0), Comp("null", 0), Comp("int", 0), Comp("int", 2), Comp("int", 12),
     Comp("int", 13), Comp("str", 0), Comp("huge", 0)}

DateDays ==
    {Comp("absent", 0), Comp("null", 0), Comp("int", 0), Comp("int", 1), Comp("int", 29),
     Comp("int", 30), Comp("int", 31), Comp("int", 32), Comp("str", 0)}

DateInputs ==
    {DateDict("dict", y, m, d) : y \in DateYears, m \in DateMonths, d \in DateDays}
    \cup {NoDateDict, [NoDateDict EXCEPT !.type = "str"]}

DateCalls ==
    {[fn |-> "parse_date", date_dict |-> d, done |-> FALSE,
      ret |-> [raised |-> FALSE, text |-> "none", date |-> NoDate]] : d \in DateInputs}

Call_parse_date ==
    /\ call.fn = "parse_date"
    /\ Return(parse_date(call.date_dict))

FieldMapperInit ==
    /\ CallInit
    /\ call \in ExtractCalls \cup StatusCalls \cup DateCalls

NextFieldMapper ==
    \/ Call_extract_raw_study_data
    \/ Call_map_study_status
    \/ Call_parse_date

SpecFieldMapper == FieldMapperInit /\ [][NextFieldMapper]_vars

\* ---- one request: fetch_studies_batch, fetch_study_by_nct_id,
\* test_connection and ingest_single_study_by_nct_id
Registries == SeqsUpTo(StreamRecords, MaxRegistry)

BatchCalls ==
    {[fn |-> "fetch_studies_batch", reg |-> reg, loops |-> loops, query_filters |-> qf,
      page_token |-> t, transport |-> transport, done |-> FALSE,
      ret |-> fetch_studies_batch(<<>>, FALSE, NoFilters, 0, "ok")] :
        reg \in Registries, loops \in BOOLEAN, qf \in StreamFilters,
        t \in 0..MaxRegistry, transport \in Transports}

LookupCalls ==
    {[fn |-> "fetch_study_by_nct_id", reg |-> reg, nct_id |-> id, transport |-> transport,
      done |-> FALSE, ret |-> [raised |-> FALSE, study_data |-> NoRecord]] :
        reg \in Registries, id \in IDs, transport \in Transports}

ProbeCalls ==
    {[fn |-> "test_connection", reg |-> reg, transport |-> transport,
      done |-> FALSE, ret |-> [raised |-> FALSE, ok |-> FALSE]] :
        reg \in Registries, transport \in Transports}

SingleCalls ==
    {[fn |-> "ingest_single_study_by_nct_id", reg |-> reg, nct_id |-> id,
      transport |-> transport, store |-> st, fault |-> fault, config |-> c,
      done |-> FALSE, ret |-> Outcome(FALSE, NoStudy, <<>>, st, <<>>)] :
        reg \in Registries, id \in IDs, transport \in Transports,
        st \in InitialStores, fault \in Faults,
        c \in {p \in PipelineConfigs : p.filter_completed_only /\ p.save_raw_data}}

ClientInit ==
    /\ CallInit
    /\ call \in BatchCalls \cup LookupCalls \cup ProbeCalls \cup SingleCalls

Call_fetch_studies_batch ==
    /\ call.fn = "fetch_studies_batch"
    /\ Return(fetch_studies_batch(call.reg, call.loops, call.query_filters,
                                  call.page_token, call.transport))

Call_fetch_study_by_nct_id ==
    /\ call.fn = "fetch_study_by_nct_id"
    /\ Return([raised |-> FALSE,
               study_data |-> fetch_study_by_nct_id(call.reg, call.nct_id, call.transport)])

\* the probe asks for one record of the registry
Call_test_connection ==
    /\ call.fn = "test_connection"
    /\ Return([raised |-> FALSE,
               ok |-> test_connection(Serve(call.reg, FALSE, _build_request_url(NoFilters, 0)),
                                      call.transport)])

Call_ingest_single_study_by_nct_id ==
    /\ call.fn = "ingest_single_study_by_nct_id"
    /\ Return(ingest_single_study_by_nct_id(call.reg, call.nct_id, call.transport,
                                            call.store, call.fault, call.config))

NextClient ==
    \/ Call_fetch_studies_batch
    \/ Call_fetch_study_by_nct_id
    \/ Call_test_connection
    \/ Call_ingest_single_study_by_nct_id

SpecClient == ClientInit /\ [][NextClient]_vars

\* ------------------------------------------------ the JSON store on disk
\* JSONStore as its methods use the file system: one file per item, named
\* after the id. The store of the sections above is this one for ids that
\* are plain file names.
MaxCalls == 4       \* calls made on one store

\* the ids studies are saved under
StoreIds == {"NCT1", "NCT2", "", "../x", "a/b"}

\* the components of f"{item_id}.json" as a relative path, without the suffix
Parts(item_id) ==
    CASE item_id = "../x" -> <<"..", "x">>
      [] item_id = "a/b" -> <<"a", "b">>
      [] OTHER -> <<item_id>>

data_dir == <<"data">>

\* the directories __init__ creates (lines 38-50)
type_mapping ==
    [study |-> Append(data_dir, "studies"), endpoint |-> Append(data_dir, "endpoints"),
     result |-> Append(data_dir, "results"), card |-> Append(data_dir, "cards"),
     play |-> Append(data_dir, "plays")]

Directories == {data_dir} \cup {type_mapping[t] : t \in DOMAIN type_mapping}

\* where the file system finds dir / parts: ".." is the parent directory
RECURSIVE Locate(_, _)
Locate(dir, parts) ==
    IF Len(parts) = 1 THEN [dir |-> dir, base |-> parts[1]]
    ELSE IF Head(parts) = ".." THEN Locate(SubSeq(dir, 1, Len(dir) - 1), Tail(parts))
    ELSE Locate(Append(dir, Head(parts)), Tail(parts))

_get_file_path(data_type, item_id) == Locate(type_mapping[data_type], Parts(item_id))

\* Path.stem of base + ".json": a name that is only ".json" has no suffix
Stem(base) == IF base = "" THEN ".json" ELSE base

\* a StudyStatus member, and the string json holds for it
Member(value) == [enum |-> TRUE, v |-> value]
Text(value) == [enum |-> FALSE, v |-> value]

\* the Study objects saved: the fields read back and the two timestamps
StoreStudy(nct_id, brief_title, conditions, has_results, overall_status, created_at) ==
    [nct_id |-> nct_id, brief_title |-> brief_title, conditions |-> conditions,
     has_results |-> has_results, overall_status |-> overall_status,
     created_at |-> created_at, updated_at |-> "none"]

StoreStudies ==
    {StoreStudy(id, "first", <<"c1", "c2">>, TRUE, Member("COMPLETED"), "none") : id \in StoreIds}
    \cup {StoreStudy(id, "second", <<>>, FALSE, Member("UNKNOWN"), "datetime") : id \in StoreIds}

\* JSONEncoder.default: an enum member is written as its value, a datetime
\* as its isoformat
JSONEncoder_default(study) ==
    [study EXCEPT !.overall_status = Text(@.v),
                  !.created_at = IF @ = "datetime" THEN "iso" ELSE @,
                  !.updated_at = IF @ = "datetime" THEN "iso" ELSE @]

\* Study(**data): __post_init__ turns a status string into the member of
\* that value, or UNKNOWN
Study__post_init__(data) ==
    [data EXCEPT !.overall_status =
        IF @.enum THEN @
        ELSE IF @.v \in StudyStatuses THEN Member(@.v) ELSE Member("UNKNOWN")]

FileAt(files, path) == {f \in files : f.dir = path.dir /\ f.base = path.base}

\* open(file_path, 'w') fails where the directory does not exist
_save_item(files, data_type, item_id, data) ==
    LET path == _get_file_path(data_type, item_id)
    IN  IF path.dir \notin Directories
        THEN [raised |-> TRUE, files |-> files]
        ELSE [raised |-> FALSE,
              files |-> (files \ FileAt(files, path))
                        \cup {[dir |-> path.dir, base |-> path.base,
                                data |-> JSONEncoder_default(data)]}]

NoData30 == JSONEncoder_default(StoreStudy("", "", <<>>, FALSE, Member("UNKNOWN"), "none"))

_load_item(files, data_type, item_id) ==
    LET found == FileAt(files, _get_file_path(data_type, item_id))
    IN  IF found = {} THEN [none |-> TRUE, data |-> NoData30]
        ELSE [none |-> FALSE, data |-> (CHOOSE f \in found : TRUE).data]

_list_items(files, data_type) ==
    {Stem(f.base) : f \in {g \in files : g.dir = type_mapping[data_type]}}

JSONStore_save_study(files, study) ==
    LET stamped == [study EXCEPT !.updated_at = "datetime",
                                 !.created_at = IF @ = "none" THEN "datetime" ELSE @]
        saved == _save_item(files, "study", study.nct_id, stamped)
    IN  [raised |-> saved.raised, files |-> saved.files, value |-> study.nct_id]

JSONStore_get_study(files, nct_id) ==
    LET loaded == _load_item(files, "study", nct_id)
        parsed == [loaded.data EXCEPT !.created_at = IF @ = "iso" THEN "datetime" ELSE @,
                                      !.updated_at = IF @ = "iso" THEN "datetime" ELSE @]
    IN  IF loaded.none THEN [raised |-> FALSE, none |-> TRUE, study |-> NoData30]
        ELSE [raised |-> FALSE, none |-> FALSE, study |-> Study__post_init__(parsed)]

JSONStore_list_studies(files) == _list_items(files, "study")

get_stats(files) ==
    [studies |-> Cardinality({g \in files : g.dir = type_mapping["study"]})]

StoreInit ==
    /\ cfg \in {c \in Configs : c.max_studies_per_run = 1 /\ c.retry_attempts = 1
                                 /\ c.continue_on_error}
    /\ store = {}
    /\ log = <<>>
    /\ pc = "store"
    /\ registry = <<>>
    /\ stats = ZeroStats
    /\ studies_processed = 0
    /\ gen = NoGen
    /\ cur = Base(NoId)
    /\ attempt = 0
    /\ last_error = <<>>
    /\ result = NoResult
    /\ trk = NoTrack
    /\ hist = NoHist
    /\ prev = NoPrev
    /\ endless = FALSE
    /\ call = NoCall

\* one more call on the store: what was called, with what, and what came back
StoreCall(fn, study, nct_id, ret, files) ==
    /\ pc = "store"
    /\ Len(log) < MaxCalls
    /\ log' = Append(log, [fn |-> fn, study |-> study, nct_id |-> nct_id, ret |-> ret])
    /\ store' = files
    /\ UNCHANGED <<cfg, registry, pc, stats, studies_processed, gen, cur, attempt,
                   last_error, result, trk, hist, prev, endless, call>>

NoRet == [raised |-> FALSE, none |-> TRUE, study |-> NoData30, value |-> "", ids |-> {}, studies |-> 0]

Call_save_study ==
    \E study \in StoreStudies :
        LET r == JSONStore_save_study(store, study)
        IN  StoreCall("save_study", study, study.nct_id,
                      [NoRet EXCEPT !.raised = r.raised, !.value = r.value], r.files)

Call_get_study ==
    \E nct_id \in StoreIds :
        LET r == JSONStore_get_study(store, nct_id)
        IN  StoreCall("get_study", NoData30, nct_id,
                      [NoRet EXCEPT !.none = r.none, !.study = r.study], store)

Call_list_studies ==
    StoreCall("list_studies", NoData30, "", [NoRet EXCEPT !.ids = JSONStore_list_studies(store)], store)

Call_get_stats ==
    StoreCall("get_stats", NoData30, "", [NoRet EXCEPT !.studies = get_stats(store).studies], store)

NextStore ==
    \/ Call_save_study
    \/ Call_get_study
    \/ Call_list_studies
    \/ Call_get_stats

SpecStore == StoreInit /\ [][NextStore]_vars

\* ================================================================ properties
Entries == DOMAIN log

\* the record of entry i passed should_process_study
Passed(i) == log[i].outcomes[1] # "rejected"

CountBucket(l, b) == Cardinality({i \in DOMAIN l : l[i].bucket = b})

\* i and j are the first two eligible records of one id
FirstTwoOf(i, j) ==
    /\ i < j
    /\ log[i].rec.nctId # NoId
    /\ log[j].rec.nctId = log[i].rec.nctId
    /\ Passed(i) /\ Passed(j)
    /\ \A k \in 1..(j - 1) : (k # i) => log[k].rec.nctId # log[i].rec.nctId
    /\ hist.store0[log[i].rec.nctId].file = "absent"
    /\ ~log[i].faulted

\* C1: in one run against a store that lacks id X, of two eligible records
\* with id X the first is saved and counted as successfully processed, the
\* second is counted as a duplicate and not as processed, and save_study is
\* called exactly once for X.
C1_DedupWithinRun ==
    \A i, j \in Entries :
        FirstTwoOf(i, j) =>
            /\ log[i].bucket = "success"
            /\ log[j].bucket = "duplicate"
            /\ stats.duplicate_studies >= 1
            /\ CountBucket(log, "success") = stats.successfully_processed
            /\ \A k \in Entries : log[k].bucket = "success" /\ log[k].rec.nctId = log[i].rec.nctId
                                    => k = i
            /\ hist.saves[log[i].rec.nctId] = 1

C1_Witness ==
    /\ \E i, j \in Entries : FirstTwoOf(i, j)
    /\ stats.duplicate_studies = 1
    /\ stats.successfully_processed = 1

AllCalls(i) == UNION {Range(log[i].calls[k]) : k \in DOMAIN log[i].calls}

C3_RejectedOnce ==
    \A i \in Entries :
        ~Passed(i) => log[i].attempts = 1 /\ log[i].sleeps = <<>>

\* the phrases of the claim, matched on the lower-cased message
MatchesNoRetryPhrase(error_msg) ==
    \E phrase \in {<<"no", "results">>, <<"no", "primary", "outcomes">>,
                   <<"no", "interventions">>, <<"not", "interventional">>,
                   <<"not", "completed">>} :
        Contains(LowerText(error_msg), phrase)

FailedAttempt(i, k) == log[i].outcomes[k] \in {"error", "rejected"}

\* C4: with retry_attempts = N, a record that fails on every attempt with an
\* error matching no non-retryable phrase is attempted exactly N times and
\* counted once as failed; a record that succeeds on attempt k after
\* transient failures is attempted exactly k times and counted as processed.
C4_RetryBudget ==
    /\ stats.failed_processing = CountBucket(log, "failed")
    /\ stats.successfully_processed = CountBucket(log, "success")
    /\ \A i \in Entries :
          LET n == log[i].attempts
          IN  /\ n = Len(log[i].outcomes)
              /\ n <= cfg.retry_attempts
              /\ (\A k \in 1..n : FailedAttempt(i, k) /\ ~MatchesNoRetryPhrase(log[i].errors[k]))
                    => (n = cfg.retry_attempts /\ log[i].bucket = "failed")
              /\ \A k \in 1..n :
                    log[i].outcomes[k] = "success" =>
                        (k = n /\ log[i].bucket = "success"
                         /\ \A m \in 1..(k - 1) : FailedAttempt(i, m))

C4_Witness ==
    /\ cfg.retry_attempts = 2
    /\ \E i \in Entries : log[i].outcomes = <<"error", "success">>
    /\ \E i \in Entries : log[i].outcomes = <<"error", "error">> /\ log[i].bucket = "failed"

\* C5: an eligible record without an identification id is counted once as
\* failed and process_single_study is called exactly once for it.
C5_MissingIdOnce ==
    \A i \in Entries :
        (log[i].rec.nctId = NoId /\ Passed(i)) =>
            (log[i].bucket = "failed" /\ log[i].attempts = 1)

Ended == pc \in {"returned", "raised"}

\* C6: a run that passed the connectivity check reaches the finalize step,
\* and reaches it once: end_time is set and the summary is emitted with the
\* statistics of the run, however the loop ended.
C6_AlwaysFinalized ==
    /\ (pc = "pull") ~> (Ended /\ hist.finalized = 1 /\ stats.end_time /\ hist.summary = stats)
    /\ [](hist.finalized <= 1)

C6_Witness ==
    /\ pc = "raised"
    /\ hist.endedBy = "interrupt"
    /\ hist.finalized = 1
    /\ hist.summary = stats
    /\ stats.total_fetched > 0

\* C7: when test_connection fails the run returns statistics that are all
\* zero with end_time set, opens no stream, fetches no page and neither
\* reads nor writes the store.
C7_NoConnectionNoProgress ==
    hist.endedBy = "no_connection" =>
        /\ pc = "returned"
        /\ stats = [ZeroStats EXCEPT !.start_time = TRUE, !.end_time = TRUE]
        /\ gen.phase = "closed"
        /\ hist.pages = 0
        /\ hist.reads = 0
        /\ hist.writes = 0
        /\ store = hist.store0

C7_Witness ==
    /\ hist.endedBy = "no_connection"
    /\ Len(registry) > 0
    /\ stats.end_time

\* C8: with continue_on_error false the first failure ends the run: no
\* record is pulled or processed after it, at most one failure is counted,
\* and the statistics returned hold the counts up to and including it. With
\* continue_on_error true a failure is only counted and the loop goes on.
C8_HaltOnFirstFailure ==
    /\ ~cfg.continue_on_error =>
          /\ stats.failed_processing <= 1
          /\ stats.failed_processing = 1 =>
                /\ pc \in {"finalize", "returned"}
                /\ hist.endedBy = "halt"
                /\ log[Len(log)].bucket = "failed"
                /\ stats.total_fetched = Len(log)
                /\ studies_processed = Len(log) - 1
                /\ pc = "returned" => hist.summary = stats
    /\ cfg.continue_on_error =>
          /\ hist.endedBy # "halt"
          /\ stats.failed_processing = CountBucket(log, "failed")
          /\ studies_processed = Len(log)

C8_Witness ==
    /\ ~cfg.continue_on_error
    /\ pc = "returned"
    /\ hist.endedBy = "halt"
    /\ stats.failed_processing = 1
    /\ stats.total_fetched = 1
    /\ Len(registry) = 2
    /\ hist.pages = 1

\* the run reached the end of the registry without a fault of its
\* environment: no failed page fetch, no failed store write
CleanRun(h, l) ==
    /\ h.endedBy \in {"exhausted", "max", "halt"}
    /\ ~h.fetch_failed
    /\ \A i \in DOMAIN l : ~l[i].faulted

IsEligibleRecord(r) == r.nctId # NoId /\ r = Base(r.nctId)

IsNoResultsRecord(r) == ~r.hasResults

NumEligible == Cardinality({i \in DOMAIN registry : IsEligibleRecord(registry[i])})

\* a stream of records with distinct ids, each eligible or without results
EndToEndScenario ==
    /\ cfg.continue_on_error
    /\ \A id \in IDs : hist.store0[id].file = "absent"
    /\ max_studies >= Len(registry)
    /\ \A i, j \in DOMAIN registry : i # j => registry[i].nctId # registry[j].nctId
    /\ \A i \in DOMAIN registry :
          IsEligibleRecord(registry[i]) \/ IsNoResultsRecord(registry[i])
    /\ pc = "returned"
    /\ hist.endedBy = "exhausted"
    /\ CleanRun(hist, log)

\* C9: over n records with distinct ids, e eligible and n - e without
\* results, a run with continue_on_error, an empty store and
\* max_studies >= n reports total_fetched = n, successfully_processed = e,
\* failed_processing = n - e, duplicate_studies = 0, success_rate * n = e,
\* and calls save_study e times.
C9_EndToEndCounts ==
    EndToEndScenario =>
        LET n == Len(registry)
            e == NumEligible
        IN  /\ stats.total_fetched = n
            /\ stats.successfully_processed = e
            /\ stats.failed_processing = n - e
            /\ stats.duplicate_studies = 0
            /\ success_rate(stats).num * n = e * success_rate(stats).den
            /\ hist.writes = e

C9_Witness ==
    /\ EndToEndScenario
    /\ Len(registry) = 2
    /\ NumEligible = 1
    /\ stats.failed_processing = 1

Recs(l) == [i \in DOMAIN l |-> l[i].rec]

\* two clean runs of one ingestor over the same stream
RerunScenario ==
    /\ prev.valid
    /\ pc = "returned"
    /\ CleanRun(prev.hist, prev.log)
    /\ CleanRun(hist, log)
    /\ hist.endedBy = prev.hist.endedBy
    /\ Recs(log) = Recs(prev.log)

RECURSIVE Flatten(_)
Flatten(seqs) == IF seqs = <<>> THEN <<>> ELSE Head(seqs) \o Flatten(Tail(seqs))

IsPrefix(a, b) == Len(a) <= Len(b) /\ SubSeq(b, 1, Len(a)) = a

\* the studies of the pages fetched so far, in page order
Fetched == Flatten([i \in DOMAIN hist.responses |-> hist.responses[i].studies])

\* C11: when the fetch of page k fails the stream ends without raising to
\* its consumer; every record of pages 1..k-1 was yielded before, and
\* ingest_studies counts exactly those records and returns with the summary
\* of the run (only an interrupt leaves it by an exception).
C11_TruncatedRun ==
    hist.fetch_failed =>
        /\ ~hist.responses[Len(hist.responses)].ok
        /\ \A i \in 1..(Len(hist.responses) - 1) : hist.responses[i].ok
        /\ gen.phase = "done"
        /\ hist.yielded = Fetched
        /\ Len(hist.yielded) = (hist.pages - 1) * PageSize
        /\ Recs(log) = hist.yielded
        /\ stats.total_fetched = Len(hist.yielded)
        /\ stats.successfully_processed + stats.failed_processing + stats.duplicate_studies
              = stats.total_fetched
        /\ pc \in {"pull", "finalize", "returned", "raised"}
        /\ pc = "raised" => hist.endedBy = "interrupt"
        /\ pc = "returned" =>
              (hist.endedBy \in {"exhausted", "exception"} /\ stats.end_time
               /\ hist.summary = stats)

C11_Witness ==
    /\ hist.fetch_failed
    /\ pc = "returned"
    /\ hist.endedBy = "exhausted"
    /\ hist.pages = 2
    /\ stats.total_fetched = 1
    /\ Len(registry) = 2

\* C12: the stream ends for every upstream, after at most max_pages page
\* fetches (the configured max_pages when none is passed), and no page is
\* fetched after a failed fetch, after a page without studies or after a
\* response without next page token.
C12_StreamTerminates ==
    /\ <>(pc = "stream_done")
    /\ [](hist.pages <= (IF call.max_pages = 0 THEN max_pages_default ELSE call.max_pages))
    /\ [](\A i \in 1..(Len(hist.responses) - 1) :
             /\ hist.responses[i].ok
             /\ hist.responses[i].studies # <<>>
             /\ hist.responses[i].next_page_token # 0)

C12_Witness ==
    /\ pc = "stream_done"
    /\ endless
    /\ call.max_pages = 0
    /\ hist.pages = max_pages_default
    /\ hist.responses[Len(hist.responses)].next_page_token # 0
    /\ Len(hist.yielded) = max_pages_default * PageSize

\* C13: the first request of a stream carries no page token and request
\* i + 1 carries the next page token of response i; each fetched page holds
\* the post-filtered records the upstream served for its request, and the
\* stream yields them page by page in response order, each exactly once.
C13_TokensAndOrder ==
    /\ Len(hist.requests) = Len(hist.responses)
    /\ hist.requests # <<>> => hist.requests[1].pageToken = 0
    /\ \A i \in 1..(Len(hist.requests) - 1) :
          /\ hist.responses[i].next_page_token # 0
          /\ hist.requests[i + 1].pageToken = hist.responses[i].next_page_token
    /\ \A i \in DOMAIN hist.responses :
          hist.responses[i].ok =>
              hist.responses[i].studies =
                  SelectSeq(Serve(registry, endless, hist.requests[i]).studies,
                            LAMBDA study : KeepStudy(study, call.query_filters))
    /\ IsPrefix(hist.yielded, Fetched)
    /\ pc = "stream_done" => hist.yielded = Fetched

C13_Witness ==
    /\ pc = "stream_done"
    /\ "has_results" \in call.query_filters.keys
    /\ Len(hist.requests) = 2
    /\ hist.requests[2].pageToken = 2
    /\ Len(hist.yielded) = 1
    /\ hist.responses[2].ok
    /\ hist.responses[2].studies = <<>>

RECURSIVE IsSubseq(_, _)
\* a can be had from b by leaving items out
IsSubseq(a, b) ==
    IF a = <<>> THEN TRUE
    ELSE IF b = <<>> THEN FALSE
    ELSE IF Head(a) = Head(b) THEN IsSubseq(Tail(a), Tail(b))
    ELSE IsSubseq(a, Tail(b))

Returned(fn) == call.fn = fn /\ call.done /\ ~call.ret.raised

\* the record holds a value for the field (the key or its section is neither
\* missing nor null)
HasFlag(study) == "hasResults" \notin study.absent

HasField(study, f) == Field(study, f) = "value"

\* the supplied predicate of key k is true of the record
Satisfies(study, qf, k) ==
    CASE k = "has_results" -> (HasFlag(study) /\ study.hasResults) = qf.has_results
      [] k = "overall_status" ->
            /\ HasField(study, "overallStatus")
            /\ IF qf.overall_status.type = "list"
               THEN study.overallStatus \in Range(qf.overall_status.v)
               ELSE study.overallStatus = qf.overall_status.v[1]
      [] k = "study_type" ->
            /\ HasField(study, "studyType")
            /\ Upper(study.studyType) = Upper(qf.study_type)

\* C14: the list _filter_studies returns is a subsequence of its input, and
\* every record in it satisfies every supplied predicate: hasResults equal
\* to the supplied has_results, overallStatus equal to the supplied status or
\* in the supplied list, studyType equal to the supplied study_type ignoring
\* case.
C14_FilterSound ==
    Returned("_filter_studies") =>
        /\ IsSubseq(call.ret.studies, call.studies)
        /\ \A i \in DOMAIN call.ret.studies :
              \A k \in call.query_filters.keys :
                  Satisfies(call.ret.studies[i], call.query_filters, k)

\* the field the predicate of key k tests is missing from the record
Lacks(study, k) ==
    CASE k = "has_results" -> ~HasFlag(study)
      [] k = "overall_status" -> Field(study, "overallStatus") = "default"
      [] k = "study_type" -> Field(study, "studyType") = "default"

\* C15: _filter_studies removes a record that lacks the field of a supplied
\* predicate, keeps a record that satisfies every supplied predicate whatever
\* other fields it lacks, and returns its input unchanged for an empty
\* filter set.
C15_MissingFieldRemoved ==
    Returned("_filter_studies") =>
        /\ call.query_filters.keys = {} => call.ret.studies = call.studies
        /\ \A i \in DOMAIN call.studies :
              /\ (\E k \in call.query_filters.keys : Lacks(call.studies[i], k))
                    => call.studies[i] \notin Range(call.ret.studies)
              /\ (\A k \in call.query_filters.keys :
                     /\ ~Lacks(call.studies[i], k)
                     /\ Satisfies(call.studies[i], call.query_filters, k))
                    => call.studies[i] \in Range(call.ret.studies)

\* the clauses of a query term (its odd positions) and what joins them
TermClauses(term) == [i \in 1..((Len(term) + 1) \div 2) |-> term[2 * i - 1]]

TermJoined(term) ==
    /\ term # <<>> => Len(term) % 2 = 1
    /\ \A i \in DOMAIN term : (i % 2 = 0) <=> (term[i] = And)

\* the clauses the filters call for, the status clause left as a parameter
WantedClauses(qf, status) ==
    (IF "intervention_type" \in qf.keys
     THEN <<Clause("AREA[InterventionType]", qf.intervention_type)>> ELSE <<>>)
    \o (IF "conditions" \notin qf.keys THEN <<>>
        ELSE IF qf.conditions.type = "list"
        THEN [i \in DOMAIN qf.conditions.v |-> Clause("AREA[Condition]", qf.conditions.v[i])]
        ELSE <<Clause("AREA[Condition]", qf.conditions.v[1])>>)
    \o status

\* a status is supplied: a string, or a list that holds at least one
StatusSupplied(qf) == "overall_status" \in qf.keys /\ qf.overall_status.v # <<>>

UrlMatches(status) ==
    /\ TermJoined(call.ret.url.query_term)
    /\ TermClauses(call.ret.url.query_term) = WantedClauses(call.query_filters, status)
    /\ call.ret.url.has_query_term <=> call.ret.url.query_term # <<>>

\* C16 as stated: the query.term is the ' AND '-join of the intervention
\* clause, one clause per condition and one status clause whenever a status
\* is supplied, a list of statuses giving the clause of COMPLETED.
C16_StatusAlwaysEmitted ==
    Returned("_build_request_url") =>
        UrlMatches(IF ~StatusSupplied(call.query_filters) THEN <<>>
                   ELSE IF call.query_filters.overall_status.type = "list"
                   THEN <<Clause("AREA[OverallStatus]", "COMPLETED")>>
                   ELSE <<Clause("AREA[OverallStatus]", call.query_filters.overall_status.v[1])>>)

\* C16 (amended): the query.term is the ' AND '-join, with no leading or
\* trailing operator, of the intervention clause, one clause per condition
\* and a status clause; a status string gives its own clause, a list of
\* statuses gives the clause of COMPLETED when the list holds COMPLETED and
\* no clause at all otherwise. has_results and study_type add no clause, and
\* the parameter is absent when there is no clause.
C16_QueryTerm ==
    Returned("_build_request_url") =>
        UrlMatches(IF ~StatusSupplied(call.query_filters) THEN <<>>
                   ELSE IF call.query_filters.overall_status.type = "list"
                   THEN IF "COMPLETED" \in Range(call.query_filters.overall_status.v)
                        THEN <<Clause("AREA[OverallStatus]", "COMPLETED")>>
                        ELSE <<>>
                   ELSE <<Clause("AREA[OverallStatus]", call.query_filters.overall_status.v[1])>>)

\* a list of two statuses with COMPLETED second, two conditions and both
\* client-side keys: four clauses and three separators
C16_Witness ==
    /\ Returned("_build_request_url")
    /\ call.query_filters.keys = UrlFilterKeys
    /\ call.query_filters.overall_status = List(<<"RECRUITING", "COMPLETED">>)
    /\ Len(call.query_filters.conditions.v) = 2
    /\ Len(call.ret.url.query_term) = 7

Called(fn) == call.fn = fn /\ call.done

\* the five ineligibility conditions of a record, in the order of the code;
\* a missing or null field counts as no value
Ineligibilities(r, config) ==
    <<config.filter_has_results_only /\ ~HasResults(r),
      ~(HasField(r, "studyType") /\ Upper(r.studyType) = "INTERVENTIONAL"),
      config.filter_completed_only
          /\ ~(HasField(r, "overallStatus")
                /\ r.overallStatus \in {"COMPLETED", "ACTIVE_NOT_RECRUITING",
                                        "ENROLLING_BY_INVITATION"}),
      ~(HasField(r, "interventions") /\ r.interventions >= 1),
      ~(HasField(r, "primaryOutcomes") /\ r.primaryOutcomes >= 1)>>

Failing(r, config) == {i \in 1..5 : Ineligibilities(r, config)[i]}

\* C17: should_process_study never raises, whatever sections or fields the
\* record lacks or holds as null; it returns (False, non-empty reason) when
\* exactly one ineligibility condition holds and (True, "") when none does.
C17_Total ==
    Called("should_process_study") =>
        /\ ~call.ret.raised
        /\ Cardinality(Failing(call.api_response, call.config)) = 1
              => ~call.ret.ok /\ call.ret.reason # <<>>
        /\ Failing(call.api_response, call.config) = {}
              => call.ret.ok /\ call.ret.reason = <<>>

Min(S) == CHOOSE x \in S : \A y \in S : x <= y

\* the first word of the reason each predicate gives
ReasonHead == <<"No", "Not", "Study", "No", "No">>

ReasonSecond == <<"results", "interventional", "not", "interventions", "primary">>

\* C18: when should_process_study returns, the record is eligible exactly
\* when every enabled predicate passes (has-results only with
\* filter_has_results_only, the allow-list {COMPLETED, ACTIVE_NOT_RECRUITING,
\* ENROLLING_BY_INVITATION} only with filter_completed_only), and the reason
\* is that of the earliest failing predicate in the order has-results, study
\* type, overall status, interventions, primary outcomes.
C18_FirstFailingReason ==
    Returned("should_process_study") =>
        LET failing == Failing(call.api_response, call.config)
        IN  /\ call.ret.ok <=> failing = {}
            /\ failing # {} =>
                  /\ call.ret.reason[1] = ReasonHead[Min(failing)]
                  /\ call.ret.reason[2] = ReasonSecond[Min(failing)]

\* every predicate fails at once and the has-results reason is reported; and
\* with both filters off the study type is the first to fail
C18_Witness ==
    /\ Returned("should_process_study")
    /\ \/ /\ Failing(call.api_response, call.config) = 1..5
          /\ call.ret.reason = <<"No", "results", "posted">>
       \/ /\ Failing(call.api_response, call.config) = {2, 4, 5}
          /\ ~call.config.filter_has_results_only
          /\ ~HasResults(call.api_response)
          /\ call.ret.reason[2] = "interventional"

\* the list fields of a Study and the raw field each is built from
ListFields ==
    [conditions |-> "conditions", interventions |-> "interventions",
     primary_outcomes |-> "primaryOutcomes", secondary_outcomes |-> "secondaryOutcomes",
     countries |-> "locations", locations |-> "locations"]

\* C19: map_to_study_object never raises for a RawStudyData with an id; a
\* missing, null or empty section or field gives its default (an empty list
\* for conditions, interventions, primary and secondary outcomes, countries
\* and locations, None for the date and the enrollment count, UNKNOWN for
\* the status), and the Study carries the nct_id of the RawStudyData.
C19_NeverRaises ==
    Called("map_to_study_object") =>
        LET protocol == call.raw_data.protocol_section
            study == call.ret.study
            lacks(f) == Section(protocol, "protocolSection") # "dict"
                        \/ Section(protocol, ModuleOf(f)) # "dict"
                        \/ f \in protocol.absent \cup protocol.null
        IN  /\ ~call.ret.raised
            /\ study.nct_id = call.raw_data.nct_id
            /\ \A g \in DOMAIN ListFields : lacks(ListFields[g]) => study[g] = 0
            /\ lacks("studyFirstPostDate") => study.first_posted = NoDate
            /\ lacks("enrollmentInfo") => study.enrollment_count = PyNone
            /\ lacks("overallStatus") => study.overall_status = "UNKNOWN"

\* C20: a Study that process_single_study saves has has_results equal to
\* the hasResults flag at the root of the raw record, false when the record
\* has no flag, whether or not the record holds a results section.
C20_FlagCopied ==
    (Called("process_single_study") /\ call.ret.success) =>
        /\ call.ret.study.has_results = HasResults(call.api_response)
        /\ call.ret.store[call.api_response.nctId].file = "ok"
        /\ call.ret.store[call.api_response.nctId].study.has_results
              = HasResults(call.api_response)

\* a record without the flag but with a results section is saved as having
\* no results
C20_Witness ==
    /\ Called("process_single_study")
    /\ call.ret.success
    /\ "hasResults" \in call.api_response.absent
    /\ ResultsSection(call.api_response) = "dict"
    /\ ~call.ret.store[call.api_response.nctId].study.has_results

\* the response holds no identification id: the section or the key is
\* missing or null, or the id is the empty string
NoIdentification(r) ==
    \/ Section(r, "protocolSection") # "dict"
    \/ Section(r, "identificationModule") # "dict"
    \/ "nctId" \in r.absent \cup r.null
    \/ r.nctId = NoId

\* C21: extract_raw_study_data fails exactly when the response holds no
\* identification id, and then with the missing-identifier error; otherwise
\* it returns a RawStudyData whose nct_id is the id of the response.
C21_MissingIdOnly ==
    Called("extract_raw_study_data") =>
        /\ call.ret.raised <=> NoIdentification(call.api_response)
        /\ call.ret.raised => call.ret.text = MissingIdText
        /\ ~call.ret.raised => call.ret.raw.nct_id = call.api_response.nctId

\* the twelve codes of the status table
TableCodes == StudyStatuses \ {"UNKNOWN"}

\* C22 as stated: map_study_status returns the enum value of a table code
\* only for a string spelled exactly as in the table, and UNKNOWN for every
\* other input, a differently-cased spelling included.
C22_CaseSensitive ==
    Called("map_study_status") =>
        call.ret.status = (IF call.status_str \in TableCodes THEN call.status_str
                           ELSE "UNKNOWN")

\* C22 (amended): map_study_status ignores letter case: it returns the enum
\* value of a table code for every spelling of that code that differs from
\* it in case only, and UNKNOWN for every string that is no such spelling,
\* for the empty string and for None.
C22_CaseInsensitive ==
    Called("map_study_status") =>
        /\ \A code \in TableCodes :
              (call.status_str # "None" /\ Upper(call.status_str) = code)
                  => call.ret.status = code
        /\ (call.status_str \in {"", "None"} \/ Upper(call.status_str) \notin TableCodes)
              => call.ret.status = "UNKNOWN"

\* 'completed' maps to COMPLETED
C22_Witness ==
    /\ Called("map_study_status")
    /\ call.status_str = "completed"
    /\ call.ret.status = "COMPLETED"

\* a component that is an integer within lo..hi, or is left out
IntWithin(comp, lo, hi) == comp.kind = "int" /\ comp.v \in lo..hi

ValueOr1(comp) == IF comp.kind = "absent" THEN 1 ELSE comp.v

\* a structure with a numeric year and every given component in range
WellFormedDate(d) ==
    /\ d.type = "dict"
    /\ IntWithin(d.year, 1, 9999)
    /\ d.month.kind = "absent" \/ IntWithin(d.month, 1, 12)
    /\ d.day.kind = "absent"
          \/ IntWithin(d.day, 1, DaysInMonth(d.year.v, ValueOr1(d.month)))

\* no dict, no year, or a component that is not numeric or out of range
MalformedDate(d) ==
    \/ d.type # "dict"
    \/ d.year.kind \in {"absent", "null"}
    \/ \E k \in {"year", "month", "day"} : d[k].kind \in {"str", "huge", "inf"}
    \/ d.month.kind = "null" \/ d.day.kind = "null"
    \/ d.year.kind = "int" /\ d.year.v \notin 1..9999
    \/ d.month.kind = "int" /\ d.month.v \notin 1..12
    \/ /\ IntWithin(d.year, 1, 9999)
       /\ d.month.kind = "absent" \/ IntWithin(d.month, 1, 12)
       /\ d.day.kind = "int"
       /\ d.day.v \notin 1..DaysInMonth(d.year.v, ValueOr1(d.month))

\* C23: parse_date never raises; a structure with a numeric year gives the
\* date of its year, month and day, month and day being 1 when left out; no
\* dict, no year, or a component that is not numeric or is out of range
\* gives None.
C23_NeverRaises ==
    Called("parse_date") =>
        /\ ~call.ret.raised
        /\ WellFormedDate(call.date_dict)
              => call.ret.date = <<call.date_dict.year.v, ValueOr1(call.date_dict.month),
                                   ValueOr1(call.date_dict.day)>>
        /\ MalformedDate(call.date_dict) => call.ret.date = NoDate

\* the page the registry holds for the request of the call
PageOf(c) == Serve(c.reg, c.loops, _build_request_url(c.query_filters, c.page_token))

\* C24: fetch_studies_batch raises whenever its request fails (another
\* status than 200, a body that is no JSON, no response) and never answers a
\* failed request with a page; when it returns, it returns the records of
\* the response that pass the post-filter, the nextPageToken and the
\* totalCount of the response, and has_more is true exactly when the
\* response held a next page token.
C24_FailurePropagates ==
    Called("fetch_studies_batch") =>
        /\ call.transport # "ok" => call.ret.raised /\ call.ret.studies = <<>>
        /\ ~call.ret.raised =>
              /\ call.transport = "ok"
              /\ IsSubseq(call.ret.studies, PageOf(call).studies)
              /\ \A i \in DOMAIN PageOf(call).studies :
                    (PageOf(call).studies[i] \in Range(call.ret.studies))
                        <=> KeepStudy(PageOf(call).studies[i], call.query_filters)
              /\ call.ret.next_page_token = PageOf(call).nextPageToken
              /\ call.ret.total_count = PageOf(call).totalCount
              /\ call.ret.has_more <=> PageOf(call).nextPageToken # 0

\* a request without a response raises, although the registry holds a page
C24_Witness ==
    /\ Called("fetch_studies_batch")
    /\ call.transport = "network_error"
    /\ PageOf(call).studies # <<>>
    /\ call.ret.raised

\* C25: fetch_study_by_nct_id never raises; it returns the first record the
\* registry returns for the id and None when the registry returns none (or
\* the request fails); ingest_single_study_by_nct_id then returns (False,
\* None, not-found message) and leaves the store as it was, without a call
\* on it.
C25_NotFound ==
    /\ Called("fetch_study_by_nct_id") =>
          LET found == SelectSeq(call.reg, LAMBDA r : r.nctId = call.nct_id)
          IN  /\ ~call.ret.raised
              /\ (call.transport = "ok" /\ found # <<>>)
                    => ~call.ret.study_data.none /\ call.ret.study_data.study = Head(found)
              /\ (call.transport = "ok" /\ found = <<>>) => call.ret.study_data.none
    /\ Called("ingest_single_study_by_nct_id") =>
          (fetch_study_by_nct_id(call.reg, call.nct_id, call.transport).none
              => /\ ~call.ret.success
                 /\ call.ret.study.none
                 /\ call.ret.error_msg = NotFoundText
                 /\ call.ret.store = call.store
                 /\ call.ret.calls = <<>>)

\* the registry holds other records but none with the id asked for
C25_Witness ==
    /\ Called("ingest_single_study_by_nct_id")
    /\ call.transport = "ok"
    /\ call.reg # <<>>
    /\ \A i \in DOMAIN call.reg : call.reg[i].nctId # call.nct_id
    /\ call.ret.error_msg = NotFoundText

\* C26: test_connection never raises and returns true exactly when the
\* probe request succeeds and its response holds at least one record.
C26_ProbeTruth ==
    Called("test_connection") =>
        /\ ~call.ret.raised
        /\ call.ret.ok <=> (call.transport = "ok" /\ call.reg # <<>>)

\* an answered probe without a record counts as no connection
C26_Witness ==
    /\ Called("test_connection")
    /\ call.transport = "ok"
    /\ call.reg = <<>>
    /\ ~call.ret.ok

\* the loop has counted fewer records than its limit and the stream holds
\* another one: in its buffer, or on the next page it is allowed to request
AnotherRecordDue ==
    /\ studies_processed + 1 < max_studies
    /\ \/ gen.buf # <<>>
       \/ /\ gen.has_more
          /\ gen.page_count + 1 < gen.max_pages
          /\ fetch_studies_batch(registry, endless, gen.query_filters, gen.batch_next,
                                 "ok").studies # <<>>

\* C27: the progress report is observational: where another record is due,
\* the end of a loop pass under the configured batch_size leaves the position
\* of the run, its counters and the way it ended exactly as the same pass
\* under another batch size (the default) does, so that two runs that differ
\* only in batch_size consume the same records and return the same counters.
C27_ProgressObservational ==
    [][CountResult /\ AnotherRecordDue =>
        LET other == CountEffect(batch_size)
        IN  /\ pc' = other.pc
            /\ stats' = other.stats
            /\ studies_processed' = other.studies_processed
            /\ hist'.endedBy = other.hist.endedBy]_vars

\* the store writes of the records the loop has finished with
RECURSIVE LoggedWrites(_)
LoggedWrites(entries) ==
    IF entries = <<>> THEN 0
    ELSE Count(Flatten(Head(entries).calls), "save_study") + LoggedWrites(Tail(entries))

\* the lookup of an attempt comes before its write, and each happens once
LookupBeforeWrite(calls) ==
    /\ Count(calls, "get_study") <= 1
    /\ Count(calls, "save_study") <= 1
    /\ \A i \in DOMAIN calls : calls[i] = "save_study" =>
           /\ i = Len(calls)
           /\ \E j \in 1..(i - 1) : calls[j] = "get_study"

\* C28: the pipeline is sequential and pull-based: when the loop asks the
\* stream for the next record, every record pulled before has been counted
\* and every store write made so far belongs to one of those finished records;
\* a page is requested only when every record the stream has yielded has been
\* handled; within an attempt the lookup of the id precedes its write.
C28_Sequential ==
    /\ [](pc = "pull" =>
            /\ Len(log) = stats.total_fetched
            /\ hist.writes = LoggedWrites(log))
    /\ [](\A i \in DOMAIN trk.calls : LookupBeforeWrite(trk.calls[i]))
    /\ [][hist'.pages > hist.pages =>
            /\ gen.buf = <<>>
            /\ Len(hist.yielded) = Len(log)
            /\ hist.writes = LoggedWrites(log)]_vars

\* two pages were requested and the records of both were saved
C28_Witness ==
    /\ pc = "pull"
    /\ hist.pages >= 2
    /\ Len(log) >= 2
    /\ hist.writes >= 2

\* C29: every call of fetch_studies_stream starts with fresh pagination
\* state, whatever an earlier call on the client did: before its first request
\* the generator stands at page 0 with no token and nothing yielded, and its
\* first request carries no page token and the filters of this call.
C29_FreshStream ==
    /\ (pc = "stream" /\ gen.phase = "need_fetch" /\ hist.pages = 0) =>
            /\ gen.page_count = 0
            /\ gen.next_token = 0
            /\ gen.buf = <<>>
            /\ hist.yielded = <<>>
    /\ hist.requests # <<>> =>
            hist.requests[1] = _build_request_url(call.query_filters, 0)

\* a second call has sent its first request after the first call was left
\* part-way, with a page requested and a study yielded
C29_Witness ==
    /\ prev.valid
    /\ prev.hist.endedBy = "abandoned"
    /\ prev.hist.pages >= 1
    /\ Len(prev.hist.yielded) >= 1
    /\ hist.run = 1
    /\ hist.requests # <<>>

\* the studies saved by the calls before the j-th, last save of each id last
SavesBefore(j) == {i \in 1..(j - 1) : log[i].fn = "save_study"}

IdsSavedBefore(j) == {log[i].nct_id : i \in SavesBefore(j)}

LastSaveOf(nct_id, j) ==
    log[CHOOSE i \in SavesBefore(j) :
            /\ log[i].nct_id = nct_id
            /\ \A k \in SavesBefore(j) : log[k].nct_id = nct_id => k <= i].study

\* C30: store round trip: save_study(s) returns s.nct_id; get_study of a
\* saved id returns a study with the nct_id, brief_title, conditions,
\* has_results and overall_status of the study saved under it, and None for
\* an id never saved; list_studies is the set of the distinct ids saved and
\* get_stats()['studies'] is their number.
C30_RoundTrip ==
    \A j \in DOMAIN log :
        LET c == log[j]
        IN  CASE c.fn = "save_study" -> ~c.ret.raised /\ c.ret.value = c.study.nct_id
              [] c.fn = "get_study" ->
                    IF c.nct_id \notin IdsSavedBefore(j) THEN c.ret.none
                    ELSE LET s == LastSaveOf(c.nct_id, j)
                         IN  /\ ~c.ret.none
                             /\ c.ret.study.nct_id = s.nct_id
                             /\ c.ret.study.brief_title = s.brief_title
                             /\ c.ret.study.conditions = s.conditions
                             /\ c.ret.study.has_results = s.has_results
                             /\ c.ret.study.overall_status = s.overall_status
              [] c.fn = "list_studies" -> c.ret.ids = IdsSavedBefore(j)
              [] OTHER -> c.ret.studies = Cardinality(IdsSavedBefore(j))

\* the records the three buckets hold
Counted(st) == st.successfully_processed + st.failed_processing + st.duplicate_studies

\* C31: between two records of a run and in the statistics it returns, every
\* fetched record is counted in exactly one bucket: total_fetched =
\* successfully_processed + failed_processing + duplicate_studies.
C31_OneBucket ==
    pc \in {"pull", "returned"} => stats.total_fetched = Counted(stats)

\* C32: a run never counts more than max_studies records; it pulls at most
\* max_studies + 1 records from the stream, the extra one being dropped
\* uncounted and unprocessed; the stream is opened with max_pages =
\* max_studies // page_size + 1 and the run issues at most that many page
\* requests.
C32_Limit ==
    /\ stats.total_fetched <= max_studies
    /\ Len(hist.yielded) <= max_studies + 1
    /\ Len(hist.yielded) - stats.total_fetched \in {0, 1}
    /\ Len(hist.yielded) > stats.total_fetched =>
            /\ hist.endedBy = "max"
            /\ stats.total_fetched = max_studies
            /\ Len(log) = max_studies
            /\ pc \in {"finalize", "returned", "raised"}
    /\ gen.phase # "closed" => gen.max_pages = max_studies \div PageSize + 1
    /\ hist.pages <= max_studies \div PageSize + 1

\* a run that stopped at its limit: one record more than it counted was pulled
C32_Witness ==
    /\ pc = "returned"
    /\ hist.endedBy = "max"
    /\ stats.total_fetched = max_studies
    /\ Len(hist.yielded) = max_studies + 1

\* the attempts, among those with these calls and errors, in which save_study
\* was called and returned: no exception was caught after the call
ReturnedSaves(calls, errors) ==
    {i \in DOMAIN calls : "save_study" \in Range(calls[i]) /\ ~IsFailure(errors[i])}

\* save_study is the last call of an attempt, made after should_process_study
\* accepted the record and get_study found no file for its id
SaveGuarded(rec, calls, file_before) ==
    \A i \in DOMAIN calls :
        "save_study" \in Range(calls[i]) =>
            /\ should_process_study(rec, cfg).ok
            /\ file_before = "absent"
            /\ LookupBeforeWrite(calls[i])
            /\ calls[i][1] = "should_process_study"

RECURSIVE SavesReturnedIn(_)
SavesReturnedIn(entries) ==
    IF entries = <<>> THEN 0
    ELSE Cardinality(ReturnedSaves(Head(entries).calls, Head(entries).errors))
         + SavesReturnedIn(Tail(entries))

\* C33: save_study is called for a record only within an attempt in which
\* should_process_study accepted it and get_study found nothing under its id;
\* between records, and at the return of a run that counted every record it
\* fetched, successfully_processed is the number of save_study calls that
\* returned; a record counted as duplicate or failed has no save_study call
\* that returned.
C33_SaveOnlyEligibleNew ==
    /\ SaveGuarded(cur, trk.calls, trk.file_before)
    /\ \A j \in DOMAIN log : SaveGuarded(log[j].rec, log[j].calls, log[j].file_before)
    /\ (pc = "pull" \/ (pc = "returned" /\ Len(log) = stats.total_fetched)) =>
            stats.successfully_processed = SavesReturnedIn(log)
    /\ \A j \in DOMAIN log :
            log[j].bucket \in {"duplicate", "failed"} =>
                ReturnedSaves(log[j].calls, log[j].errors) = {}

\* a run returned after it saved one record and counted as failed another
\* whose save_study calls all failed
C33_Witness ==
    /\ pc = "returned"
    /\ stats.successfully_processed >= 1
    /\ \E j \in DOMAIN log :
            /\ log[j].bucket = "failed"
            /\ \E i \in DOMAIN log[j].calls : "save_study" \in Range(log[j].calls[i])

\* C34: a record counted in failed_processing leaves the store unchanged:
\* after all its attempts its id is not in list_studies unless a file for it
\* was there before the record, also when save_study failed part-way through
\* the write and the record was retried.
C34_FailedLeavesNoFile ==
    (pc = "pull" /\ log # <<>>) =>
        LET last == log[Len(log)]
        IN  (/\ last.bucket = "failed"
             /\ last.rec.nctId # NoId
             /\ last.file_before = "absent") =>
                last.rec.nctId \notin list_studies(store)


\* C35: the delay slept after the k-th failed attempt of a record is
\* retry_delay * k; a delay is slept only when another attempt of the same
\* record follows, so a finished record has slept once before each attempt
\* but its first, and nothing after its last attempt, whether that ended in
\* success, duplicate, a non-retryable reason or the exhausted budget.
Backoff(sleeps, attempts) ==
    /\ Len(sleeps) = attempts - 1
    /\ \A k \in DOMAIN sleeps : sleeps[k] = cfg.retry_delay * k

C35_LinearBackoff ==
    /\ \A j \in DOMAIN log :
            /\ Backoff(log[j].sleeps, log[j].attempts)
            /\ \A k \in 1..(log[j].attempts - 1) :
                    log[j].outcomes[k] \notin {"success", "duplicate"}
            /\ \A k \in 1..(log[j].attempts - 1) : ~IsValidationError(log[j].errors[k])
    /\ pc = "attempt" =>
            /\ Backoff(trk.sleeps, trk.attempts + 1)
            /\ attempt = trk.attempts
            /\ attempt < cfg.retry_attempts
    /\ pc = "count" => Backoff(trk.sleeps, trk.attempts)

C35_Witness ==
    \E j \in DOMAIN log :
        /\ log[j].attempts = MaxBackoff
        /\ log[j].sleeps = <<2 * retry_delay, 4 * retry_delay>>
        /\ log[j].bucket = "failed"


\* C36: with sleep_between_requests > 0 the stream sleeps exactly once between
\* two consecutive page fetches, never before the first fetch, and every sleep
\* is followed by another page fetch: a stream that has stopped has slept one
\* time less than it has fetched pages, also when it stopped at max_pages.
C36_SleepOnlyBetweenFetches ==
    /\ hist.pages = 0 => gen.slept = 0
    /\ gen.phase = "yielding" => gen.slept = hist.pages - 1
    /\ gen.phase = "need_fetch" => gen.slept = hist.pages
    /\ (gen.phase = "done" /\ hist.pages > 0) => gen.slept = hist.pages - 1


\* C37: the stream ends at the first page whose record list is empty after
\* filtering, also when the response of that page carries a next page token:
\* that response is the last one, nothing is requested or yielded after it,
\* and records of later pages that pass the filters are never yielded.
EmptyPage(response) == response.ok /\ response.studies = <<>>

C37_EmptyPageEndsStream ==
    \A i \in DOMAIN hist.responses :
        EmptyPage(hist.responses[i]) =>
            /\ i = Len(hist.responses)
            /\ gen.phase = "done"
            /\ gen.buf = <<>>
            /\ \A k \in DOMAIN hist.yielded :
                    \E j \in 1..(i - 1) : hist.yielded[k] \in Range(hist.responses[j].studies)

\* a finished stream that stopped at a filtered-out first page with a token and
\* never yielded the matching record of the second page
C37_Witness ==
    /\ pc = "stream_done"
    /\ Len(hist.responses) = 1
    /\ EmptyPage(hist.responses[1])
    /\ hist.responses[1].next_page_token # 0
    /\ gen.max_pages > 1
    /\ Len(registry) = 2
    /\ _filter_studies(<<registry[2]>>, gen.query_filters).studies = <<registry[2]>>
    /\ hist.yielded = <<>>


\* C38: studies_with_results never exceeds successfully_processed, and with
\* filter_has_results_only enabled the two counters are equal: every saved
\* record carried a true hasResults flag and its Study holds the same flag.
SavedEntries == {j \in DOMAIN log : log[j].bucket = "success"}

C38_ResultsCounter ==
    /\ stats.studies_with_results <= stats.successfully_processed
    /\ stats.studies_with_results =
            Cardinality({j \in SavedEntries : HasResults(log[j].rec)})
    /\ cfg.filter_has_results_only =>
            /\ stats.studies_with_results = stats.successfully_processed
            /\ \A j \in SavedEntries :
                    /\ HasResults(log[j].rec)
                    /\ store[log[j].rec.nctId].study.has_results

\* a finished run under the filter that saved a record
C38_Witness ==
    /\ pc = "returned"
    /\ cfg.filter_has_results_only
    /\ stats.successfully_processed > 0
    /\ stats.studies_with_results = stats.successfully_processed


\* C39: zero-valued limits are treated as absent. ingest_studies(max_studies=0)
\* runs with config.max_studies_per_run, fetch_studies_stream(max_pages=0)
\* runs with config.max_pages, and with retry_attempts = 0 every fetched
\* record is counted in failed_processing without a call of
\* process_single_study.
C39_ZeroIsAbsent ==
    /\ (call.fn = "ingest_studies" /\ call.max_studies = 0) =>
            /\ max_studies = cfg.max_studies_per_run
            /\ gen.phase # "closed" =>
                    gen.max_pages = cfg.max_studies_per_run \div PageSize + 1
            /\ stats.total_fetched <= cfg.max_studies_per_run
            /\ hist.endedBy = "max" => stats.total_fetched = cfg.max_studies_per_run
    /\ (call.fn = "fetch_studies_stream" /\ call.max_pages = 0) =>
            /\ gen.max_pages = max_pages_default
            /\ hist.pages <= max_pages_default
    /\ (call.fn = "ingest_studies" /\ cfg.retry_attempts = 0) =>
            /\ \A j \in DOMAIN log :
                    /\ log[j].bucket = "failed"
                    /\ log[j].attempts = 0
                    /\ log[j].calls = <<>>
            /\ stats.failed_processing = Len(log)
            /\ (pc \in {"pull", "returned"} /\ hist.endedBy \notin {"exception", "interrupt"}) =>
                    stats.failed_processing = stats.total_fetched
            /\ stats.successfully_processed = 0 /\ stats.duplicate_studies = 0
            /\ hist.writes = 0
            /\ pc \notin {"idle", "connect"} => store = hist.store0

\* ingest_studies(max_studies=0) under max_studies_per_run = MaxStudies and
\* retry_attempts = 0 ends with MaxStudies records, all counted as failed
C39_Witness ==
    /\ call.fn = "ingest_studies"
    /\ call.max_studies = 0
    /\ cfg.retry_attempts = 0
    /\ cfg.max_studies_per_run = MaxStudies
    /\ pc = "returned"
    /\ stats.total_fetched = MaxStudies
    /\ stats.failed_processing = MaxStudies

====
